---- MODULE Spec2Model ----
(***************************************************************************)
(* Envelope encryption engine of mirfa-intern-challenge (packages/crypto): *)
(* hex codec, master key registry, two-layer AES-256-GCM envelope          *)
(* encryption and decryption, and the key rotation protocol.               *)
(*                                                                         *)
(* Buffers are sequences of bytes (0..255), strings are sequences of       *)
(* one-character strings.  AES-256-GCM (node:crypto) is modelled as an     *)
(* ideal AEAD: a counter-mode keystream added to the plaintext and a tag   *)
(* that is a collision-free digest of (key, nonce, aad, ciphertext) over   *)
(* the values the model can build.  randomBytes is an ideal generator: it  *)
(* never returns the same bytes twice.                                     *)
(***************************************************************************)
EXTENDS Integers, Sequences, FiniteSets, TLC

\* ----- bounds of the model -----
MaxEncrypts == 1

\* ----- constants of envelope.ts -----
DEK_BYTES == 32
NONCE_BYTES == 12
TAG_BYTES == 16
MASTER_KEY_BYTES == 32
ALG == "AES-256-GCM"

Min(a, b) == IF a < b THEN a ELSE b

\* ----- characters and bytes -----

HexLower == <<"0","1","2","3","4","5","6","7","8","9","a","b","c","d","e","f">>
HexUpper == <<"0","1","2","3","4","5","6","7","8","9","A","B","C","D","E","F">>

HexChars == {HexLower[i] : i \in 1..16} \cup {HexUpper[i] : i \in 1..16}

\* the test of the regular expression /^[0-9a-f]*$/i on one character
IsHexChar(c) == c \in HexChars

\* the value of a hex digit of either case
HexValues ==
  [c \in HexChars |-> (CHOOSE i \in 1..16 : c = HexLower[i] \/ c = HexUpper[i]) - 1]
HexVal(c) == HexValues[c]

\* two uppercase digits per byte
HexEncode_Upper(buf) ==
  [i \in 1..(2 * Len(buf)) |->
     IF i % 2 = 1 THEN HexUpper[(buf[(i + 1) \div 2] \div 16) + 1]
                  ELSE HexUpper[(buf[i \div 2] % 16) + 1]]

\* Buffer.prototype.toString("hex"): two lowercase digits per byte
HexEncode(buf) ==
  [i \in 1..(2 * Len(buf)) |->
     IF i % 2 = 1 THEN HexLower[(buf[(i + 1) \div 2] \div 16) + 1]
                  ELSE HexLower[(buf[i \div 2] % 16) + 1]]

\* Buffer.from(value, "hex") on a string of hex digits of even length
HexDecode(s) ==
  [i \in 1..(Len(s) \div 2) |-> 16 * HexVal(s[2 * i - 1]) + HexVal(s[2 * i])]

\* the characters the model writes strings with, and their UTF-8 code
Chars == <<"{", "}", "\"", ":", ",", "0", "1", "2", "3", "4", "5", "6", "7", "8", "9", "a", "b", "p", "q", "x", "y">>
Codes == <<123, 125, 34, 58, 44, 48, 49, 50, 51, 52, 53, 54, 55, 56, 57, 97, 98, 112, 113, 120, 121>>

CharCodes == [c \in {Chars[i] : i \in 1..Len(Chars)} |-> Codes[CHOOSE i \in 1..Len(Chars) : Chars[i] = c]]
CharCode(c) == CharCodes[c]

\* Buffer.from(text, "utf-8")
Utf8Encode(s) == [i \in 1..Len(s) |-> CharCode(s[i])]

\* buf.toString("utf-8"); a byte that is no character of the model decodes
\* to the replacement character
Utf8Decode(buf) ==
  [i \in 1..Len(buf) |->
     IF \E j \in 1..Len(Codes) : Codes[j] = buf[i]
     THEN Chars[CHOOSE j \in 1..Len(Codes) : Codes[j] = buf[i]]
     ELSE "?"]

\* ----- results and errors -----
\* the code throws Error objects that differ by message; the kinds name them

Ok(v) == [ok |-> TRUE, value |-> v]
Err(e) == [ok |-> FALSE, error |-> e]

\* "<label>: invalid hex encoding"
MalformedEncoding(label) == [kind |-> "MalformedEncoding", label |-> label]

\* "<label>: expected <n> bytes, got <m> bytes"
LengthMismatch(label, expected, actual) ==
  [kind |-> "LengthMismatch", label |-> label, expected |-> expected, actual |-> actual]

\* "Master key version <v> not found. Available versions: <list>"
UnknownKeyVersion(requested, available) ==
  [kind |-> "UnknownKeyVersion", requested |-> requested, available |-> available]

\* "Decryption failed: authentication tag mismatch (data may be tampered). ..."
AuthenticationFailed == [kind |-> "AuthenticationFailed"]

\* "Decryption produced invalid JSON - possible data corruption"
CorruptPayload == [kind |-> "CorruptPayload"]

\* "No master keys found. Set MASTER_KEY_V1 (or MASTER_KEY) environment variable."
NoKeysConfigured == [kind |-> "NoKeysConfigured"]

\* RangeError "Invalid key length" of createCipheriv / createDecipheriv
InvalidKeyLength == [kind |-> "InvalidKeyLength"]

\* ----- utils.ts -----

\* an absent expectedBytes argument
NoLength == -1

\* the byte length is not compared
validateHex_NoLength(value, label, expectedBytes) ==
  IF (\E i \in 1..Len(value) : ~IsHexChar(value[i])) \/ Len(value) % 2 # 0
  THEN Err(MalformedEncoding(label))
  ELSE Ok(HexDecode(value))
\* the byte length is compared before the hex form is tested
validateHex_LengthFirst(value, label, expectedBytes) ==
  IF expectedBytes # NoLength /\ Len(value) \div 2 # expectedBytes
  THEN Err(LengthMismatch(label, expectedBytes, Len(value) \div 2))
  ELSE IF (\E i \in 1..Len(value) : ~IsHexChar(value[i])) \/ Len(value) % 2 # 0
  THEN Err(MalformedEncoding(label))
  ELSE Ok(HexDecode(value))

validateHex(value, label, expectedBytes) ==
  IF (\E i \in 1..Len(value) : ~IsHexChar(value[i])) \/ Len(value) % 2 # 0
  THEN Err(MalformedEncoding(label))
  ELSE LET buf == HexDecode(value) IN
       IF expectedBytes # NoLength /\ Len(buf) # expectedBytes
       THEN Err(LengthMismatch(label, expectedBytes, Len(buf)))
       ELSE Ok(buf)

\* ----- AES-256-GCM of node:crypto, as an ideal AEAD -----

RECURSIVE DigestFrom(_, _, _)
DigestFrom(buf, i, h) ==
  IF i > Len(buf) THEN h ELSE DigestFrom(buf, i + 1, (h * 31 + buf[i] + 1) % 257)

\* a polynomial hash (as GHASH is): changing one byte changes the digest
Digest(buf) == DigestFrom(buf, 1, Len(buf) % 257)

\* the keystream of (key, nonce): byte i is (KeystreamBase + 7 * i) % 256
KeystreamBase(key, nonce) == (Digest(key) + 3 * Digest(nonce)) % 256

\* cipher.update(data) + cipher.final(): counter mode, same length as data
GcmEncryptBytes(key, nonce, data) ==
  LET base == KeystreamBase(key, nonce) IN
  [i \in 1..Len(data) |-> (data[i] + base + 7 * i) % 256]

GcmDecryptBytes(key, nonce, ct) ==
  LET base == KeystreamBase(key, nonce) IN
  [i \in 1..Len(ct) |-> (ct[i] + 512 - ((base + 7 * i) % 256)) % 256]

\* cipher.getAuthTag(): 16 bytes that authenticate key, nonce, aad and ciphertext
GcmTag(key, nonce, aad, ct) ==
  LET dk == Digest(key)
      dn == Digest(nonce)
      da == Digest(aad)
      dc == Digest(ct)
  IN  <<dk \div 256, dk % 256, dn \div 256, dn % 256,
        da \div 256, da % 256, dc \div 256, dc % 256,
        Len(aad) % 256, Len(ct) % 256, 0, 0, 0, 0, 0, 0>>

\* randomBytes(n): the t-th draw of an ideal generator; draws differ in their
\* first byte, seed is the part of the value that nothing determines
randomBytes(n, t, seed) ==
  [i \in 1..n |-> IF i = 1 THEN t % 256 ELSE (seed * 64 + 5 * t + i) % 256]

\* ----- envelope.ts: low-level helpers -----

\* the tag is taken without the call of cipher.setAAD
aesGcmEncrypt_NoAad(key, data, aad, t, seed) ==
  LET nonce == randomBytes(NONCE_BYTES, t, seed)
      ct == GcmEncryptBytes(key, nonce, data)
      tag == GcmTag(key, nonce, <<>>, ct)
  IN  [nonce |-> HexEncode(nonce), ct |-> HexEncode(ct), tag |-> HexEncode(tag)]

aesGcmEncrypt(key, data, aad, t, seed) ==
  LET nonce == randomBytes(NONCE_BYTES, t, seed)
      ct == GcmEncryptBytes(key, nonce, data)
      tag == GcmTag(key, nonce, aad, ct)
  IN  [nonce |-> HexEncode(nonce), ct |-> HexEncode(ct), tag |-> HexEncode(tag)]

\* decipher.final() does not compare the tag
aesGcmDecrypt_NoTagCheck(key, nonceHex, ctHex, tagHex, aad) ==
  LET nonce == validateHex(nonceHex, "nonce", NONCE_BYTES)
      ct == validateHex(ctHex, "ciphertext", NoLength)
      tag == validateHex(tagHex, "auth_tag", TAG_BYTES)
  IN  IF ~nonce.ok THEN nonce
      ELSE IF ~ct.ok THEN ct
      ELSE IF ~tag.ok THEN tag
      ELSE IF Len(key) # MASTER_KEY_BYTES THEN Err(InvalidKeyLength)
      ELSE Ok(GcmDecryptBytes(key, nonce.value, ct.value))

aesGcmDecrypt(key, nonceHex, ctHex, tagHex, aad) ==
  LET nonce == validateHex(nonceHex, "nonce", NONCE_BYTES)
      ct == validateHex(ctHex, "ciphertext", NoLength)
      tag == validateHex(tagHex, "auth_tag", TAG_BYTES)
  IN  IF ~nonce.ok THEN nonce
      ELSE IF ~ct.ok THEN ct
      ELSE IF ~tag.ok THEN tag
      ELSE IF Len(key) # MASTER_KEY_BYTES THEN Err(InvalidKeyLength)
      ELSE IF GcmTag(key, nonce.value, aad, ct.value) # tag.value
           THEN Err(AuthenticationFailed)
      ELSE Ok(GcmDecryptBytes(key, nonce.value, ct.value))

\* ----- JSON.stringify and JSON.parse -----
\* JSON values: numbers, strings, and objects whose members are <<key, scalar>>
\* in insertion order

JNum(n) == [t |-> "num", n |-> n, s |-> <<>>, m |-> <<>>]
JStr(s) == [t |-> "str", n |-> 0, s |-> s, m |-> <<>>]
JObj(m) == [t |-> "obj", n |-> 0, s |-> <<>>, m |-> m]

Digits == <<"0","1","2","3","4","5","6","7","8","9">>
IsDigit(c) == \E i \in 1..10 : Digits[i] = c
DigitVal(c) == (CHOOSE i \in 1..10 : Digits[i] = c) - 1

RECURSIVE NumberText(_)
NumberText(n) ==
  IF n < 10 THEN <<Digits[n + 1]>> ELSE NumberText(n \div 10) \o <<Digits[(n % 10) + 1]>>

Quote == "\""

RECURSIVE MembersText(_, _)
JsonStringify(v) ==
  IF v.t = "num" THEN NumberText(v.n)
  ELSE IF v.t = "str" THEN <<Quote>> \o v.s \o <<Quote>>
  ELSE <<"{">> \o MembersText(v.m, 1) \o <<"}">>
MembersText(m, i) ==
  IF i > Len(m) THEN <<>>
  ELSE (IF i > 1 THEN <<",">> ELSE <<>>)
       \o <<Quote>> \o m[i][1] \o <<Quote, ":">> \o JsonStringify(m[i][2])
       \o MembersText(m, i + 1)

ParseFail == [ok |-> FALSE, val |-> JNum(0), next |-> 0]
Parsed(v, next) == [ok |-> TRUE, val |-> v, next |-> next]

\* index of the closing quote of the string that opens at i, 0 if none
ClosingQuote(cs, i) ==
  IF \E j \in (i + 1)..Len(cs) : cs[j] = Quote
  THEN CHOOSE j \in (i + 1)..Len(cs) :
         cs[j] = Quote /\ \A k \in (i + 1)..(j - 1) : cs[k] # Quote
  ELSE 0

ParseString(cs, i) ==
  IF i > Len(cs) \/ cs[i] # Quote THEN ParseFail
  ELSE LET j == ClosingQuote(cs, i) IN
       IF j = 0 THEN ParseFail
       ELSE Parsed(JStr(SubSeq(cs, i + 1, j - 1)), j + 1)

RECURSIVE DigitsValue(_, _, _)
DigitsValue(cs, i, acc) ==
  IF i > Len(cs) \/ ~IsDigit(cs[i]) THEN Parsed(JNum(acc), i)
  ELSE DigitsValue(cs, i + 1, 10 * acc + DigitVal(cs[i]))

\* a JSON number has no leading zero
ParseNumber(cs, i) ==
  IF i > Len(cs) \/ ~IsDigit(cs[i]) THEN ParseFail
  ELSE IF cs[i] = "0" THEN Parsed(JNum(0), i + 1)
  ELSE DigitsValue(cs, i, 0)

ParseScalar(cs, i) ==
  IF i <= Len(cs) /\ cs[i] = Quote THEN ParseString(cs, i) ELSE ParseNumber(cs, i)

\* a repeated key keeps its place and takes the later value
PutMember(m, key, v) ==
  IF \E k \in 1..Len(m) : m[k][1] = key
  THEN [k \in 1..Len(m) |-> IF m[k][1] = key THEN <<key, v>> ELSE m[k]]
  ELSE Append(m, <<key, v>>)

\* members from i on, after "{" or ","
RECURSIVE ParseMembers(_, _, _)
ParseMembers(cs, i, m) ==
  LET key == ParseString(cs, i) IN
  IF ~key.ok \/ key.next > Len(cs) \/ cs[key.next] # ":" THEN ParseFail
  ELSE LET v == ParseScalar(cs, key.next + 1) IN
       IF ~v.ok \/ v.next > Len(cs) THEN ParseFail
       ELSE IF cs[v.next] = "}" THEN Parsed(JObj(PutMember(m, key.val.s, v.val)), v.next + 1)
       ELSE IF cs[v.next] = "," THEN ParseMembers(cs, v.next + 1, PutMember(m, key.val.s, v.val))
       ELSE ParseFail

ParseValue(cs) ==
  IF Len(cs) >= 1 /\ cs[1] = "{"
  THEN IF Len(cs) >= 2 /\ cs[2] = "}" THEN Parsed(JObj(<<>>), 3)
       ELSE ParseMembers(cs, 2, <<>>)
  ELSE ParseScalar(cs, 1)

\* JSON.parse(text): the value, or a SyntaxError
JsonParse(cs) ==
  LET r == ParseValue(cs) IN
  IF r.ok /\ r.next = Len(cs) + 1 THEN [ok |-> TRUE, val |-> r.val]
  ELSE [ok |-> FALSE, val |-> JNum(0)]

\* ----- index.ts: master key registry -----
\* an environment is a sequence of entries [name, value] in insertion order;
\* a registry is a function from version numbers to 32-byte keys

LegacyName == <<"M","A","S","T","E","R","_","K","E","Y">>
VersionedPrefix == LegacyName \o <<"_","V">>

\* key.match(/^MASTER_KEY_V(\d+)$/)
MatchesVersioned(name) ==
  /\ Len(name) > Len(VersionedPrefix)
  /\ SubSeq(name, 1, Len(VersionedPrefix)) = VersionedPrefix
  /\ \A i \in (Len(VersionedPrefix) + 1)..Len(name) : IsDigit(name[i])

\* parseInt(match[1], 10) on a run of digits
RECURSIVE ParseIntFrom(_, _, _)
ParseIntFrom(name, i, acc) ==
  IF i > Len(name) THEN acc ELSE ParseIntFrom(name, i + 1, 10 * acc + DigitVal(name[i]))
ParseVersion(name) == ParseIntFrom(name, Len(VersionedPrefix) + 1, 0)

EmptyRegistry == [v \in {} |-> <<>>]

SetKey(registry, version, key) ==
  [v \in (DOMAIN registry) \cup {version} |-> IF v = version THEN key ELSE registry[v]]
\* a versioned entry whose value does not validate is skipped
RECURSIVE ScanVersioned_SkipInvalid(_, _, _)
ScanVersioned_SkipInvalid(env, i, registry) ==
  IF i > Len(env) THEN Ok(registry)
  ELSE IF MatchesVersioned(env[i].name) /\ env[i].value # <<>>
  THEN LET version == ParseVersion(env[i].name)
           key == validateHex(env[i].value, "MASTER_KEY_V" \o ToString(version), MASTER_KEY_BYTES)
       IN  IF ~key.ok THEN ScanVersioned_SkipInvalid(env, i + 1, registry)
           ELSE ScanVersioned_SkipInvalid(env, i + 1, SetKey(registry, version, key.value))
  ELSE ScanVersioned_SkipInvalid(env, i + 1, registry)

\* the loop over Object.entries(env): the registry, or the first error thrown
RECURSIVE ScanVersioned(_, _, _)
ScanVersioned(env, i, registry) ==
  IF i > Len(env) THEN Ok(registry)
  ELSE IF MatchesVersioned(env[i].name) /\ env[i].value # <<>>
  THEN LET version == ParseVersion(env[i].name)
           key == validateHex(env[i].value, "MASTER_KEY_V" \o ToString(version), MASTER_KEY_BYTES)
       IN  IF ~key.ok THEN key
           ELSE ScanVersioned(env, i + 1, SetKey(registry, version, key.value))
  ELSE ScanVersioned(env, i + 1, registry)

\* env.MASTER_KEY, <<>> when it is not set
LegacyValue(env) ==
  IF \E i \in 1..Len(env) : env[i].name = LegacyName
  THEN env[CHOOSE i \in 1..Len(env) : env[i].name = LegacyName].value
  ELSE <<>>

\* the legacy key is stored as version 0
buildKeyRegistry_LegacyZero(env) ==
  LET scanned == ScanVersioned(env, 1, EmptyRegistry) IN
  IF ~scanned.ok THEN scanned
  ELSE IF DOMAIN scanned.value = {} /\ LegacyValue(env) # <<>>
  THEN LET key == validateHex(LegacyValue(env), "MASTER_KEY", MASTER_KEY_BYTES) IN
       IF ~key.ok THEN key ELSE Ok(SetKey(EmptyRegistry, 0, key.value))
  ELSE IF DOMAIN scanned.value = {} THEN Err(NoKeysConfigured)
  ELSE scanned

\* the legacy key is merged in as version 1 when no versioned entry has version 1
buildKeyRegistry_MergeLegacy(env) ==
  LET scanned == ScanVersioned(env, 1, EmptyRegistry) IN
  IF ~scanned.ok THEN scanned
  ELSE IF 1 \notin DOMAIN scanned.value /\ LegacyValue(env) # <<>>
  THEN LET key == validateHex(LegacyValue(env), "MASTER_KEY", MASTER_KEY_BYTES) IN
       IF ~key.ok THEN key ELSE Ok(SetKey(scanned.value, 1, key.value))
  ELSE IF DOMAIN scanned.value = {} THEN Err(NoKeysConfigured)
  ELSE scanned

buildKeyRegistry(env) ==
  LET scanned == ScanVersioned(env, 1, EmptyRegistry) IN
  IF ~scanned.ok THEN scanned
  ELSE IF DOMAIN scanned.value = {} /\ LegacyValue(env) # <<>>
  THEN LET key == validateHex(LegacyValue(env), "MASTER_KEY", MASTER_KEY_BYTES) IN
       IF ~key.ok THEN key ELSE Ok(SetKey(EmptyRegistry, 1, key.value))
  ELSE IF DOMAIN scanned.value = {} THEN Err(NoKeysConfigured)
  ELSE scanned

\* the lowest version instead of the highest
getLatestVersion_Lowest(registry) ==
  CHOOSE v \in DOMAIN registry : \A w \in DOMAIN registry : v <= w

\* the version after the highest one
getLatestVersion_Next(registry) ==
  (CHOOSE v \in DOMAIN registry : \A w \in DOMAIN registry : w <= v) + 1

\* Math.max(...Object.keys(registry).map(Number))
getLatestVersion(registry) ==
  CHOOSE v \in DOMAIN registry : \A w \in DOMAIN registry : w <= v

\* an absent version falls back to the highest one
getKey_FallBack(registry, version) ==
  IF version \in DOMAIN registry THEN Ok(registry[version])
  ELSE Ok(registry[CHOOSE v \in DOMAIN registry : \A w \in DOMAIN registry : w <= v])

\* the key of the highest version, whatever version is asked for
getKey_Latest(registry, version) ==
  IF version \in DOMAIN registry
  THEN Ok(registry[CHOOSE v \in DOMAIN registry : \A w \in DOMAIN registry : w <= v])
  ELSE Err(UnknownKeyVersion(version, DOMAIN registry))

getKey(registry, version) ==
  IF version \in DOMAIN registry THEN Ok(registry[version])
  ELSE Err(UnknownKeyVersion(version, DOMAIN registry))

\* ----- envelope.ts: record validation and public API -----

\* dek_wrapped is checked to be DEK_BYTES long
validateRecord_DekLength(record) ==
  LET v1 == validateHex(record.payload_nonce, "payload_nonce", NONCE_BYTES)
      v2 == validateHex(record.payload_ct, "payload_ct", NoLength)
      v3 == validateHex(record.payload_tag, "payload_tag", TAG_BYTES)
      v4 == validateHex(record.dek_wrap_nonce, "dek_wrap_nonce", NONCE_BYTES)
      v5 == validateHex(record.dek_wrapped, "dek_wrapped", DEK_BYTES)
      v6 == validateHex(record.dek_wrap_tag, "dek_wrap_tag", TAG_BYTES)
  IN  IF ~v1.ok THEN v1
      ELSE IF ~v2.ok THEN v2
      ELSE IF ~v3.ok THEN v3
      ELSE IF ~v4.ok THEN v4
      ELSE IF ~v5.ok THEN v5
      ELSE IF ~v6.ok THEN v6
      ELSE Ok(<<>>)

\* the first field that fails, in the order of the six calls
validateRecord(record) ==
  LET v1 == validateHex(record.payload_nonce, "payload_nonce", NONCE_BYTES)
      v2 == validateHex(record.payload_ct, "payload_ct", NoLength)
      v3 == validateHex(record.payload_tag, "payload_tag", TAG_BYTES)
      v4 == validateHex(record.dek_wrap_nonce, "dek_wrap_nonce", NONCE_BYTES)
      v5 == validateHex(record.dek_wrapped, "dek_wrapped", NoLength)
      v6 == validateHex(record.dek_wrap_tag, "dek_wrap_tag", TAG_BYTES)
  IN  IF ~v1.ok THEN v1
      ELSE IF ~v2.ok THEN v2
      ELSE IF ~v3.ok THEN v3
      ELSE IF ~v4.ok THEN v4
      ELSE IF ~v5.ok THEN v5
      ELSE IF ~v6.ok THEN v6
      ELSE Ok(<<>>)

\* no additional authenticated data is derived from the party
AadOf_Unbound(partyId) == <<>>

\* Buffer.from(partyId, "utf-8"): the additional authenticated data of both layers
AadOf(partyId) == Utf8Encode(partyId)

\* the DEK is the same draw in every call
envelopeEncrypt_SameDek(registry, id, partyId, payload, t, seed, now) ==
  LET mkVersion == getLatestVersion(registry)
      masterKey == getKey(registry, mkVersion)
      aad == AadOf(partyId)
      dek == randomBytes(DEK_BYTES, 1, seed)
      plaintext == Utf8Encode(JsonStringify(payload))
      payloadEnc == aesGcmEncrypt(dek, plaintext, aad, t + 2, seed)
      dekEnc == aesGcmEncrypt(masterKey.value, dek, aad, t + 3, seed)
  IN  IF ~masterKey.ok THEN masterKey
      ELSE Ok([id |-> id,
               partyId |-> partyId,
               createdAt |-> now,
               payload_nonce |-> payloadEnc.nonce,
               payload_ct |-> payloadEnc.ct,
               payload_tag |-> payloadEnc.tag,
               dek_wrap_nonce |-> dekEnc.nonce,
               dek_wrapped |-> dekEnc.ct,
               dek_wrap_tag |-> dekEnc.tag,
               alg |-> ALG,
               mk_version |-> mkVersion])

\* t numbers the randomBytes draws made before the call, now is the clock
envelopeEncrypt(registry, id, partyId, payload, t, seed, now) ==
  LET mkVersion == getLatestVersion(registry)
      masterKey == getKey(registry, mkVersion)
      aad == AadOf(partyId)
      dek == randomBytes(DEK_BYTES, t + 1, seed)
      plaintext == Utf8Encode(JsonStringify(payload))
      payloadEnc == aesGcmEncrypt(dek, plaintext, aad, t + 2, seed)
      dekEnc == aesGcmEncrypt(masterKey.value, dek, aad, t + 3, seed)
  IN  IF ~masterKey.ok THEN masterKey
      ELSE Ok([id |-> id,
               partyId |-> partyId,
               createdAt |-> now,
               payload_nonce |-> payloadEnc.nonce,
               payload_ct |-> payloadEnc.ct,
               payload_tag |-> payloadEnc.tag,
               dek_wrap_nonce |-> dekEnc.nonce,
               dek_wrapped |-> dekEnc.ct,
               dek_wrap_tag |-> dekEnc.tag,
               alg |-> ALG,
               mk_version |-> mkVersion])

\* the outcome of the call, with the steps the call went through
Outcome(res, steps) == [res |-> res, steps |-> steps]

\* the master key is looked up before the record is validated
envelopeDecrypt_LookupFirst(registry, record) ==
  LET valid == validateRecord(record)
      masterKey == getKey(registry, record.mk_version)
      aad == AadOf(record.partyId)
      dek == aesGcmDecrypt(masterKey.value, record.dek_wrap_nonce,
                           record.dek_wrapped, record.dek_wrap_tag, aad)
      plaintext == aesGcmDecrypt(dek.value, record.payload_nonce,
                                 record.payload_ct, record.payload_tag, aad)
      parsed == JsonParse(Utf8Decode(plaintext.value))
  IN  IF ~masterKey.ok THEN Outcome(masterKey, <<"getKey">>)
      ELSE IF ~valid.ok THEN Outcome(valid, <<"getKey", "validateRecord">>)
      ELSE IF ~dek.ok THEN Outcome(dek, <<"getKey", "validateRecord", "unwrapDek">>)
      ELSE IF ~plaintext.ok
           THEN Outcome(plaintext, <<"getKey", "validateRecord", "unwrapDek", "decryptPayload">>)
      ELSE IF ~parsed.ok
           THEN Outcome(Err(CorruptPayload),
                        <<"getKey", "validateRecord", "unwrapDek", "decryptPayload", "parse">>)
      ELSE Outcome(Ok(parsed.val),
                   <<"getKey", "validateRecord", "unwrapDek", "decryptPayload", "parse">>)

\* an authentication failure is returned with the layer it happened in
envelopeDecrypt_NamesLayer(registry, record) ==
  LET valid == validateRecord(record)
      masterKey == getKey(registry, record.mk_version)
      aad == AadOf(record.partyId)
      dek == aesGcmDecrypt(masterKey.value, record.dek_wrap_nonce,
                           record.dek_wrapped, record.dek_wrap_tag, aad)
      plaintext == aesGcmDecrypt(dek.value, record.payload_nonce,
                                 record.payload_ct, record.payload_tag, aad)
      parsed == JsonParse(Utf8Decode(plaintext.value))
      InLayer(res, layer) ==
        IF res.error.kind = "AuthenticationFailed"
        THEN Err([kind |-> "AuthenticationFailed", layer |-> layer])
        ELSE res
  IN  IF ~valid.ok THEN Outcome(valid, <<"validateRecord">>)
      ELSE IF ~masterKey.ok THEN Outcome(masterKey, <<"validateRecord", "getKey">>)
      ELSE IF ~dek.ok
           THEN Outcome(InLayer(dek, "dek"), <<"validateRecord", "getKey", "unwrapDek">>)
      ELSE IF ~plaintext.ok
           THEN Outcome(InLayer(plaintext, "payload"),
                        <<"validateRecord", "getKey", "unwrapDek", "decryptPayload">>)
      ELSE IF ~parsed.ok
           THEN Outcome(Err(CorruptPayload),
                        <<"validateRecord", "getKey", "unwrapDek", "decryptPayload", "parse">>)
      ELSE Outcome(Ok(parsed.val),
                   <<"validateRecord", "getKey", "unwrapDek", "decryptPayload", "parse">>)

\* the error of a failed parse carries the text that was decrypted
envelopeDecrypt_TextInError(registry, record) ==
  LET valid == validateRecord(record)
      masterKey == getKey(registry, record.mk_version)
      aad == AadOf(record.partyId)
      dek == aesGcmDecrypt(masterKey.value, record.dek_wrap_nonce,
                           record.dek_wrapped, record.dek_wrap_tag, aad)
      plaintext == aesGcmDecrypt(dek.value, record.payload_nonce,
                                 record.payload_ct, record.payload_tag, aad)
      parsed == JsonParse(Utf8Decode(plaintext.value))
  IN  IF ~valid.ok THEN Outcome(valid, <<"validateRecord">>)
      ELSE IF ~masterKey.ok THEN Outcome(masterKey, <<"validateRecord", "getKey">>)
      ELSE IF ~dek.ok THEN Outcome(dek, <<"validateRecord", "getKey", "unwrapDek">>)
      ELSE IF ~plaintext.ok
           THEN Outcome(plaintext, <<"validateRecord", "getKey", "unwrapDek", "decryptPayload">>)
      ELSE IF ~parsed.ok
           THEN Outcome(Err([kind |-> "CorruptPayload", text |-> Utf8Decode(plaintext.value)]),
                        <<"validateRecord", "getKey", "unwrapDek", "decryptPayload", "parse">>)
      ELSE Outcome(Ok(parsed.val),
                   <<"validateRecord", "getKey", "unwrapDek", "decryptPayload", "parse">>)
\* a failed parse is reported as an authentication failure
envelopeDecrypt_ParseAsAuthentication(registry, record) ==
  LET valid == validateRecord(record)
      masterKey == getKey(registry, record.mk_version)
      aad == AadOf(record.partyId)
      dek == aesGcmDecrypt(masterKey.value, record.dek_wrap_nonce,
                           record.dek_wrapped, record.dek_wrap_tag, aad)
      plaintext == aesGcmDecrypt(dek.value, record.payload_nonce,
                                 record.payload_ct, record.payload_tag, aad)
      parsed == JsonParse(Utf8Decode(plaintext.value))
  IN  IF ~valid.ok THEN Outcome(valid, <<"validateRecord">>)
      ELSE IF ~masterKey.ok THEN Outcome(masterKey, <<"validateRecord", "getKey">>)
      ELSE IF ~dek.ok THEN Outcome(dek, <<"validateRecord", "getKey", "unwrapDek">>)
      ELSE IF ~plaintext.ok
           THEN Outcome(plaintext, <<"validateRecord", "getKey", "unwrapDek", "decryptPayload">>)
      ELSE IF ~parsed.ok
           THEN Outcome(Err(AuthenticationFailed),
                        <<"validateRecord", "getKey", "unwrapDek", "decryptPayload", "parse">>)
      ELSE Outcome(Ok(parsed.val),
                   <<"validateRecord", "getKey", "unwrapDek", "decryptPayload", "parse">>)

\* a DEK that does not unwrap under the key of mk_version is unwrapped under
\* another key of the registry
envelopeDecrypt_RetryOtherVersions(registry, record) ==
  LET valid == validateRecord(record)
      masterKey == getKey(registry, record.mk_version)
      aad == AadOf(record.partyId)
      first == aesGcmDecrypt(masterKey.value, record.dek_wrap_nonce,
                             record.dek_wrapped, record.dek_wrap_tag, aad)
      others == { v \in DOMAIN registry :
                    aesGcmDecrypt(registry[v], record.dek_wrap_nonce,
                                  record.dek_wrapped, record.dek_wrap_tag, aad).ok }
      dek == IF first.ok \/ others = {} THEN first
             ELSE aesGcmDecrypt(registry[CHOOSE v \in others : TRUE], record.dek_wrap_nonce,
                                record.dek_wrapped, record.dek_wrap_tag, aad)
      plaintext == aesGcmDecrypt(dek.value, record.payload_nonce,
                                 record.payload_ct, record.payload_tag, aad)
      parsed == JsonParse(Utf8Decode(plaintext.value))
  IN  IF ~valid.ok THEN Outcome(valid, <<"validateRecord">>)
      ELSE IF ~masterKey.ok THEN Outcome(masterKey, <<"validateRecord", "getKey">>)
      ELSE IF ~dek.ok THEN Outcome(dek, <<"validateRecord", "getKey", "unwrapDek">>)
      ELSE IF ~plaintext.ok
           THEN Outcome(plaintext, <<"validateRecord", "getKey", "unwrapDek", "decryptPayload">>)
      ELSE IF ~parsed.ok
           THEN Outcome(Err(CorruptPayload),
                        <<"validateRecord", "getKey", "unwrapDek", "decryptPayload", "parse">>)
      ELSE Outcome(Ok(parsed.val),
                   <<"validateRecord", "getKey", "unwrapDek", "decryptPayload", "parse">>)

envelopeDecrypt(registry, record) ==
  LET valid == validateRecord(record)
      masterKey == getKey(registry, record.mk_version)
      aad == AadOf(record.partyId)
      dek == aesGcmDecrypt(masterKey.value, record.dek_wrap_nonce,
                           record.dek_wrapped, record.dek_wrap_tag, aad)
      plaintext == aesGcmDecrypt(dek.value, record.payload_nonce,
                                 record.payload_ct, record.payload_tag, aad)
      parsed == JsonParse(Utf8Decode(plaintext.value))
  IN  IF ~valid.ok THEN Outcome(valid, <<"validateRecord">>)
      ELSE IF ~masterKey.ok THEN Outcome(masterKey, <<"validateRecord", "getKey">>)
      ELSE IF ~dek.ok THEN Outcome(dek, <<"validateRecord", "getKey", "unwrapDek">>)
      ELSE IF ~plaintext.ok
           THEN Outcome(plaintext, <<"validateRecord", "getKey", "unwrapDek", "decryptPayload">>)
      ELSE IF ~parsed.ok
           THEN Outcome(Err(CorruptPayload),
                        <<"validateRecord", "getKey", "unwrapDek", "decryptPayload", "parse">>)
      ELSE Outcome(Ok(parsed.val),
                   <<"validateRecord", "getKey", "unwrapDek", "decryptPayload", "parse">>)

\* ----- the inputs of the model -----

\* a master key as its 64 hex characters
KeyBytes(k) == [i \in 1..MASTER_KEY_BYTES |-> (17 * k + i) % 256]
KeyHex(k) == HexEncode(KeyBytes(k))

Entry(name, value) == [name |-> name, value |-> value]
V(digits) == VersionedPrefix \o digits

EnvV1 == <<Entry(V(<<"1">>), KeyHex(1))>>
EnvV2 == <<Entry(V(<<"2">>), KeyHex(2))>>
EnvV1V2 == <<Entry(V(<<"1">>), KeyHex(1)), Entry(V(<<"2">>), KeyHex(2))>>
EnvV1Rekeyed == <<Entry(V(<<"1">>), KeyHex(3))>>
EnvLegacy == <<Entry(LegacyName, KeyHex(1))>>
EnvEmpty == <<>>
EnvShortKey == <<Entry(V(<<"1">>), SubSeq(KeyHex(1), 1, 62))>>

Envs == {EnvV1, EnvV2, EnvV1V2, EnvV1Rekeyed, EnvLegacy, EnvEmpty, EnvShortKey}

Ids == {<<"x">>, <<"y">>}
Parties == {<<"p">>, <<"q">>}

PayloadEmpty == JObj(<<>>)
PayloadAmount == JObj(<< <<(<<"a">>), JNum(15)>> >>)
PayloadTwo == JObj(<< <<(<<"a">>), JNum(7)>>, <<(<<"b">>), JStr(<<"x", "y">>)>> >>)
Payloads == {PayloadEmpty, PayloadAmount, PayloadTwo}

\* the (id, partyId, payload) of the encrypt calls
Requests ==
  { <<(<<"x">>), (<<"p">>), PayloadEmpty>>,
    <<(<<"x">>), (<<"q">>), PayloadAmount>>,
    <<(<<"y">>), (<<"p">>), PayloadTwo>> }

BinaryFields ==
  {"payload_nonce", "payload_ct", "payload_tag", "dek_wrap_nonce", "dek_wrapped", "dek_wrap_tag"}
Fields == BinaryFields \cup {"id", "partyId", "createdAt", "alg", "mk_version"}

\* the hex text with the byte at pos changed by delta
FlipByte(hex, pos, delta) ==
  LET buf == HexDecode(hex) IN
  HexEncode([buf EXCEPT ![pos] = (buf[pos] + delta) % 256])

UpperCase(hex) ==
  [i \in 1..Len(hex) |-> IF IsHexChar(hex[i]) THEN HexUpper[HexVal(hex[i]) + 1] ELSE hex[i]]

\* what a third party may put in place of field f of record r
Replacements(r, f) ==
  IF f \in BinaryFields
  THEN ( { FlipByte(r[f], pos, delta) : pos \in {1, Len(r[f]) \div 2}, delta \in {1, 128} }
         \cup { UpperCase(r[f]),
                SubSeq(r[f], 1, Min(16, Len(r[f]) - 2)),
                r[f] \o <<"0", "0">>,
                SubSeq(r[f], 1, Len(r[f]) - 1),
                <<"z", "z">> \o SubSeq(r[f], 3, Len(r[f])) } ) \ {r[f]}
  ELSE IF f = "id" THEN Ids \ {r.id}
  ELSE IF f = "partyId" THEN Parties \ {r.partyId}
  ELSE IF f = "createdAt" THEN {r.createdAt + 1}
  ELSE IF f = "alg" THEN {"AES-128-GCM"}
  ELSE {1, 2, 3} \ {r.mk_version}

\* ----- state -----

VARIABLES
  registry,   \* the registry of the last successful buildKeyRegistry, empty before
  produced,   \* the calls of envelopeEncrypt that returned, in order
  held,       \* the record a caller holds: a produced record, as stored or with one field replaced
  last,       \* the last call and its outcome
  calls,        \* the engine calls in progress: their arguments, position and locals
  instances,    \* the registry objects buildKeyRegistry has made, in order of creation
  reader,       \* the registry object a reader holds, and the key set it saw when it got it
  environment,  \* process.env of the API process, as a sequence of entries
  store,        \* the Map of the API: the records by id
  hits,         \* the rate limiter of the decrypt route: the requests counted for each IP
  clock,        \* the time, in units of the rate limit window
  app,          \* the module variable app of the serverless entry point
  handlers      \* the handler invocations of the serverless entry point in progress

\* the variables of the engine in use, and those of the programs around it
engineVars == <<registry, produced, held, last>>
instanceVars == <<instances, reader>>
apiVars == <<environment, store, hits, clock>>
serverlessVars == <<app, handlers>>
serverVars == <<calls, instanceVars, apiVars, serverlessVars>>

vars == <<engineVars, serverVars>>

NoRecord ==
  [id |-> <<>>, partyId |-> <<>>, createdAt |-> 0,
   payload_nonce |-> <<>>, payload_ct |-> <<>>, payload_tag |-> <<>>,
   dek_wrap_nonce |-> <<>>, dek_wrapped |-> <<>>, dek_wrap_tag |-> <<>>,
   alg |-> ALG, mk_version |-> 0]

NoHeld == [rec |-> NoRecord, origin |-> 0, edit |-> "none"]

\* no registry object is held, the API has served nothing, the serverless
\* entry point has not been invoked, no call is in progress
InstancesIdle == instances = <<>> /\ reader = [ref |-> 0, seen |-> EmptyRegistry]
ApiIdle == environment = <<>> /\ store = <<>> /\ hits = <<>> /\ clock = 0
ServerlessIdle == app = [made |-> 0, plugins |-> {}, ready |-> FALSE] /\ handlers = <<>>
ServerIdle == calls = <<>> /\ InstancesIdle /\ ApiIdle /\ ServerlessIdle

Init ==
  /\ ServerIdle
  /\ registry = EmptyRegistry
  /\ produced = <<>>
  /\ held = NoHeld
  /\ last = [op |-> "none"]

\* what is remembered of an envelopeEncrypt call: the record returned, the
\* arguments and the registry of the call
Written(record, id, partyId, payload, reg) ==
  [record |-> record, id |-> id, partyId |-> partyId, payload |-> payload, registry |-> reg]

\* buildKeyRegistry(env): the caller keeps the registry when one is returned
BuildKeyRegistry(env) ==
  LET built == buildKeyRegistry(env) IN
  /\ registry' = IF built.ok THEN built.value ELSE registry
  /\ last' = [op |-> "build", res |-> built]
  /\ UNCHANGED <<produced, held, serverVars>>

\* envelopeEncrypt(registry, id, partyId, payload) on the current registry
EnvelopeEncrypt(id, partyId, payload) ==
  /\ registry # EmptyRegistry
  /\ Len(produced) < MaxEncrypts
  /\ LET res == envelopeEncrypt(registry, id, partyId, payload,
                                3 * Len(produced), 0, Len(produced) + 1)
     IN  /\ last' = [op |-> "encrypt", id |-> id, partyId |-> partyId,
                     payload |-> payload, res |-> res]
         /\ produced' = IF res.ok
                         THEN Append(produced, Written(res.value, id, partyId, payload, registry))
                         ELSE produced
  /\ UNCHANGED <<registry, held, serverVars>>

\* a caller reads the i-th record back from where it was stored
Take(i) ==
  /\ i \in 1..Len(produced)
  /\ held' = [rec |-> produced[i].record, origin |-> i, edit |-> "none"]
  /\ last' = [op |-> "take"]
  /\ UNCHANGED <<registry, produced, serverVars>>

\* the replacements open to a third party: one field of a record as stored
TamperChoices(f) ==
  IF held.origin = 0 \/ held.edit # "none" THEN {} ELSE Replacements(held.rec, f)

\* a third party replaces one field of the held record
Tamper(f, v) ==
  /\ v \in TamperChoices(f)
  /\ held' = [held EXCEPT !.rec = [held.rec EXCEPT ![f] = v], !.edit = f]
  /\ last' = [op |-> "tamper"]
  /\ UNCHANGED <<registry, produced, serverVars>>

\* the record the held one was read from, as envelopeEncrypt returned it
Origin == produced[held.origin]

\* envelopeDecrypt(registry, record) on the current registry and the held record
EnvelopeDecrypt ==
  /\ registry # EmptyRegistry
  /\ held.origin # 0
  /\ last' = [op |-> "decrypt", out |-> envelopeDecrypt(registry, held.rec)]
  /\ UNCHANGED <<registry, produced, held, serverVars>>

\* the engine in use: registries are rebuilt, records written, read back and decrypted
Next ==
  \/ \E env \in Envs : BuildKeyRegistry(env)
  \/ \E rq \in Requests : EnvelopeEncrypt(rq[1], rq[2], rq[3])
  \/ \E i \in 1..MaxEncrypts : Take(i)
  \/ EnvelopeDecrypt

Spec == Init /\ [][Next]_vars

\* the text is an even number of hex digits
IsHex(text) == (\A i \in 1..Len(text) : IsHexChar(text[i])) /\ Len(text) % 2 = 0

\* the last call, an envelopeDecrypt, failed with an error of this kind
FailsWith(kind) == ~last.out.res.ok /\ last.out.res.error.kind = kind

\* ----- round trip (section 8) -----

\* envelopeDecrypt has returned for a record as envelopeEncrypt wrote it, under
\* the registry of the encrypt call
RoundTripCase ==
  /\ last.op = "decrypt"
  /\ held.edit = "none"
  /\ Origin.registry = registry

\* C1 as stated: the round trip succeeds and envelopeDecrypt returns
\* {id, partyId, payload} as supplied to envelopeEncrypt
C1_ResultIsIdPartyPayload ==
  RoundTripCase =>
    /\ last.out.res.ok
    /\ last.out.res.value =
         [id |-> Origin.id, partyId |-> Origin.partyId, payload |-> Origin.payload]

\* C1 amended: the round trip succeeds and envelopeDecrypt returns the payload
\* supplied to envelopeEncrypt, alone; the record carries the id and partyId
\* supplied, which the caller puts next to the payload
C1_RoundTrip ==
  RoundTripCase =>
    /\ last.out.res.ok
    /\ last.out.res.value = Origin.payload
    /\ held.rec.id = Origin.id
    /\ held.rec.partyId = Origin.partyId

C1_Witness ==
  /\ RoundTripCase
  /\ last.out.res.ok
  /\ Origin.payload = PayloadTwo
  /\ DOMAIN registry = {1, 2}

\* ----- key rotation (sections 4.2, 4.3 and 8) -----

\* envelopeEncrypt has returned a record
EncryptCase == last.op = "encrypt" /\ last.res.ok

\* envelopeDecrypt has returned for a record as envelopeEncrypt wrote it
StoredCase == last.op = "decrypt" /\ held.edit = "none"

\* the registry holds the version of the held record
VersionPresent == held.rec.mk_version \in DOMAIN registry

\* the registry holds the version of the held record with the key the record
\* was written under
KeyPresent ==
  VersionPresent /\ registry[held.rec.mk_version] = Origin.registry[held.rec.mk_version]

ReturnsPayloadAsWritten == last.out.res.ok /\ last.out.res.value = Origin.payload

\* the record returned names the highest version of the registry of the call
WritesHighestVersion ==
  /\ last.res.value.mk_version \in DOMAIN registry
  /\ \A w \in DOMAIN registry : w <= last.res.value.mk_version

\* C5: envelopeEncrypt writes the highest version of its registry as
\* mk_version, and a registry of several versions decrypts a record written
\* under any one of its versions to the payload as written
C5_RotationCoexistence ==
  /\ EncryptCase => WritesHighestVersion
  /\ (StoredCase /\ Cardinality(DOMAIN registry) > 1 /\ KeyPresent)
       => ReturnsPayloadAsWritten

C5_Witness ==
  /\ StoredCase
  /\ DOMAIN registry = {1, 2}
  /\ DOMAIN Origin.registry = {2}
  /\ held.rec.mk_version = 2
  /\ ReturnsPayloadAsWritten

\* C6 as stated: through any sequence of rebuilds, envelopeEncrypt writes the
\* highest version of the registry in use, and a record written earlier
\* decrypts to its payload under every later registry that holds its mk_version
C6_DecryptsWhileVersionPresent ==
  /\ EncryptCase => WritesHighestVersion
  /\ (StoredCase /\ VersionPresent) => ReturnsPayloadAsWritten

\* C6 amended: through any sequence of rebuilds, envelopeEncrypt writes the
\* highest version of the registry in use, and a record written earlier
\* decrypts to its payload under every later registry that holds its
\* mk_version with the key it was written under; under a registry that holds
\* the version with another key the call fails with AuthenticationFailed
C6_RotationProtocol ==
  /\ EncryptCase => WritesHighestVersion
  /\ (StoredCase /\ KeyPresent) => ReturnsPayloadAsWritten
  /\ (StoredCase /\ VersionPresent /\ ~KeyPresent) => FailsWith("AuthenticationFailed")

C6_Witness ==
  /\ StoredCase
  /\ DOMAIN Origin.registry = {1}
  /\ DOMAIN registry = {1, 2}
  /\ held.rec.mk_version = 1
  /\ ReturnsPayloadAsWritten

\* C7: envelopeDecrypt of a record written under version N with a registry
\* without N fails with UnknownKeyVersion, which carries N and the versions of
\* the registry, right after the key lookup: no unwrap is tried
C7_VersionIsolation ==
  (StoredCase /\ ~VersionPresent) =>
    /\ last.out.res = Err(UnknownKeyVersion(held.rec.mk_version, DOMAIN registry))
    /\ last.out.steps = <<"validateRecord", "getKey">>

C7_Witness ==
  /\ StoredCase
  /\ held.rec.mk_version = 1
  /\ DOMAIN registry = {2}
  /\ FailsWith("UnknownKeyVersion")
  /\ last.out.res.error.requested = 1
  /\ last.out.res.error.available = {2}

\* ----- a stored record in the hands of a third party -----

\* the state after one envelopeEncrypt call under a registry of one or two versions
InitTamper ==
  /\ ServerIdle
  /\ \E env \in {EnvV1, EnvV1V2} : \E rq \in Requests :
    LET reg == buildKeyRegistry(env).value
        rec == envelopeEncrypt(reg, rq[1], rq[2], rq[3], 0, 0, 1).value
    IN  /\ registry = reg
        /\ produced = <<Written(rec, rq[1], rq[2], rq[3], reg)>>
        /\ held = [rec |-> rec, origin |-> 1, edit |-> "none"]
        /\ last = [op |-> "encrypt", id |-> rq[1], partyId |-> rq[2],
                   payload |-> rq[3], res |-> Ok(rec)]

NextTamper ==
  \/ \E f \in Fields : \E v \in TamperChoices(f) : Tamper(f, v)
  \/ EnvelopeDecrypt

SpecTamper == InitTamper /\ [][NextTamper]_vars

\* ----- envelopeDecrypt on arbitrary records -----

\* the fields validateRecord checks the byte length of, in its order, and the
\* length it asks for
FieldOrder ==
  <<"payload_nonce", "payload_ct", "payload_tag", "dek_wrap_nonce", "dek_wrapped", "dek_wrap_tag">>
LengthFields == {"payload_nonce", "payload_tag", "dek_wrap_nonce", "dek_wrap_tag"}
ExpectedBytes(f) == IF f \in {"payload_nonce", "dek_wrap_nonce"} THEN NONCE_BYTES ELSE TAG_BYTES

\* the first n bytes of hex text, and bytes that continue it to n bytes
Shortened(hex, n) == SubSeq(hex, 1, 2 * n)
Lengthened(hex, n) == hex \o [i \in 1..(2 * n - Len(hex)) |-> "0"]
NonHex(hex) == <<"z", "z">> \o SubSeq(hex, 3, Len(hex))
OddLength(hex) == SubSeq(hex, 1, Len(hex) - 1)

\* what a stored record may hold in field f where record r has r[f]
FieldVariants(r, f) ==
  {r[f]} \cup
  ( CASE f = "payload_nonce" -> {NonHex(r[f]), OddLength(r[f]), Shortened(r[f], 8)}
      [] f = "payload_ct" -> {NonHex(r[f]), OddLength(r[f]), FlipByte(r[f], 1, 1)}
      [] f = "payload_tag" -> {NonHex(r[f]), Shortened(r[f], 12), FlipByte(r[f], 16, 1)}
      [] f = "dek_wrap_nonce" -> {NonHex(r[f]), OddLength(r[f]), Lengthened(r[f], 16)}
      [] f = "dek_wrapped" -> {NonHex(r[f]), Shortened(r[f], 31), Lengthened(r[f], 33)}
      [] f = "dek_wrap_tag" -> {OddLength(r[f]), Lengthened(r[f], 17), FlipByte(r[f], 1, 128)} )

\* the record r with a DEK of n bytes wrapped under the master key: the work of
\* a writer that holds the key, no envelopeEncrypt returns it
WithWrappedDek(r, masterKey, n) ==
  LET wrap == aesGcmEncrypt(masterKey, randomBytes(n, 7, 0), AadOf(r.partyId), 8, 0) IN
  [r EXCEPT !.dek_wrap_nonce = wrap.nonce, !.dek_wrapped = wrap.ct, !.dek_wrap_tag = wrap.tag]

\* the record r with this text in place of the JSON text of a payload,
\* encrypted under the DEK of the record: again the work of a writer that holds
\* the key
WithPlaintext(r, dek, text) ==
  LET enc == aesGcmEncrypt(dek, Utf8Encode(text), AadOf(r.partyId), 9, 0) IN
  [r EXCEPT !.payload_nonce = enc.nonce, !.payload_ct = enc.ct, !.payload_tag = enc.tag]

\* text that JSON.parse rejects
NotJson == {<<"{">>, <<"{", "\"", "a", "\"", "}">>}

\* the records of the check: a record of envelopeEncrypt with every choice of
\* field variants and of mk_version, records with a wrapped DEK of 31, 32 and
\* 33 bytes, and records whose payload layer holds text that is not JSON
RecordsOf(r, reg) ==
  { [r EXCEPT !.payload_nonce = v1, !.payload_ct = v2, !.payload_tag = v3,
              !.dek_wrap_nonce = v4, !.dek_wrapped = v5, !.dek_wrap_tag = v6,
              !.mk_version = mk] :
      v1 \in FieldVariants(r, "payload_nonce"), v2 \in FieldVariants(r, "payload_ct"),
      v3 \in FieldVariants(r, "payload_tag"), v4 \in FieldVariants(r, "dek_wrap_nonce"),
      v5 \in FieldVariants(r, "dek_wrapped"), v6 \in FieldVariants(r, "dek_wrap_tag"),
      mk \in {r.mk_version, 3} }
  \cup { WithWrappedDek(r, reg[r.mk_version], n) : n \in {DEK_BYTES - 1, DEK_BYTES, DEK_BYTES + 1} }
  \cup { WithPlaintext(r, randomBytes(DEK_BYTES, 1, 0), text) : text \in NotJson }

InitRecords ==
  /\ ServerIdle
  /\ \E rq \in Requests :
    LET reg == buildKeyRegistry(EnvV1V2).value
        rec == envelopeEncrypt(reg, rq[1], rq[2], rq[3], 0, 0, 1).value
    IN  /\ registry = reg
        /\ produced = <<Written(rec, rq[1], rq[2], rq[3], reg)>>
        /\ \E r \in RecordsOf(rec, reg) : held = [rec |-> r, origin |-> 1, edit |-> "fields"]
        /\ last = [op |-> "take"]

NextRecords == EnvelopeDecrypt

SpecRecords == InitRecords /\ [][NextRecords]_vars

\* envelopeDecrypt has returned for the held record
DecryptCase == last.op = "decrypt"

\* field f of the held record is hex, but not of the length asked for
WrongLength(f) == IsHex(held.rec[f]) /\ Len(held.rec[f]) # 2 * ExpectedBytes(f)

\* field f of the held record passes its check of validateRecord
WellFormed(f) ==
  IsHex(held.rec[f]) /\ (f \in LengthFields => Len(held.rec[f]) = 2 * ExpectedBytes(f))

Position(f) == CHOOSE i \in 1..Len(FieldOrder) : FieldOrder[i] = f

\* every field that validateRecord checks before f passes its check
WellFormedBefore(f) == \A i \in 1..(Position(f) - 1) : WellFormed(FieldOrder[i])

\* the length error of field f of the held record
LengthErrorOf(f) == Err(LengthMismatch(f, ExpectedBytes(f), Len(held.rec[f]) \div 2))

\* C8 as stated: envelopeDecrypt of a record with a nonce that is not 12 bytes
\* or a tag that is not 16 bytes fails with the LengthMismatch of such a field,
\* whatever the other fields contain
C8_LengthMismatchWhateverElse ==
  (DecryptCase /\ \E f \in LengthFields : WrongLength(f))
    => \E f \in LengthFields : WrongLength(f) /\ last.out.res = LengthErrorOf(f)

\* C8 amended: envelopeDecrypt of such a record fails in validateRecord, with
\* LengthMismatch or MalformedEncoding; it fails with the LengthMismatch of
\* field f, carrying the length asked for and the length found, when every
\* field checked before f is well formed
C8_LengthEnforcement ==
  /\ (DecryptCase /\ \E f \in LengthFields : WrongLength(f))
       => /\ FailsWith("LengthMismatch") \/ FailsWith("MalformedEncoding")
          /\ last.out.steps = <<"validateRecord">>
  /\ \A f \in LengthFields :
       (DecryptCase /\ WrongLength(f) /\ WellFormedBefore(f))
         => last.out.res = LengthErrorOf(f)

C8_Witness ==
  /\ DecryptCase
  /\ WrongLength("dek_wrap_nonce")
  /\ WellFormedBefore("dek_wrap_nonce")
  /\ ~WellFormed("dek_wrap_tag")
  /\ held.rec.mk_version = 3
  /\ last.out.res = Err(LengthMismatch("dek_wrap_nonce", 12, 16))

\* dek_wrapped of the held record is hex of another length than a wrapped DEK
\* has, and the other five fields are well formed
OnlyWrappedDekLengthOff ==
  /\ IsHex(held.rec.dek_wrapped)
  /\ Len(held.rec.dek_wrapped) # 2 * DEK_BYTES
  /\ \A f \in BinaryFields : WellFormed(f)

\* C9 as stated: a record whose dek_wrapped is not 32 bytes is rejected with
\* LengthMismatch in validateRecord, before the key lookup
C9_WrappedDekLengthGate ==
  (DecryptCase /\ OnlyWrappedDekLengthOff)
    => (FailsWith("LengthMismatch") /\ last.out.steps = <<"validateRecord">>)

\* C9 amended: validateRecord checks dek_wrapped for hex digits only; a record
\* whose dek_wrapped is hex of another length than 32 bytes, its other fields
\* well formed, passes validateRecord and reaches the key lookup; with its
\* version present the DEK unwrap is made and the call fails after it, with
\* AuthenticationFailed, or with the invalid key length error of the payload
\* layer when the tag authenticates the wrapped bytes
C9_WrappedDekLengthNotValidated ==
  (DecryptCase /\ OnlyWrappedDekLengthOff) =>
    /\ ~last.out.res.ok
    /\ ~FailsWith("LengthMismatch")
    /\ Len(last.out.steps) >= 2
    /\ ~VersionPresent => FailsWith("UnknownKeyVersion")
    /\ VersionPresent =>
         \/ FailsWith("AuthenticationFailed") /\ Len(last.out.steps) = 3
         \/ FailsWith("InvalidKeyLength") /\ Len(last.out.steps) = 4

C9_Witness ==
  /\ DecryptCase
  /\ OnlyWrappedDekLengthOff
  /\ Len(held.rec.dek_wrapped) = 2 * (DEK_BYTES - 1)
  /\ VersionPresent
  /\ FailsWith("AuthenticationFailed")
  /\ last.out.steps = <<"validateRecord", "getKey", "unwrapDek">>

\* the steps of envelopeDecrypt, in the order of section 4.3
StepOrder == <<"validateRecord", "getKey", "unwrapDek", "decryptPayload", "parse">>

Malformed == \E f \in BinaryFields : ~WellFormed(f)

\* the tag of a layer of the held record is the tag of its nonce and bytes
\* under this key and the partyId of the record
Authentic(key, nonceField, ctField, tagField) ==
  GcmTag(key, HexDecode(held.rec[nonceField]), Utf8Encode(held.rec.partyId),
         HexDecode(held.rec[ctField])) = HexDecode(held.rec[tagField])

WrapAuthentic ==
  Authentic(registry[held.rec.mk_version], "dek_wrap_nonce", "dek_wrapped", "dek_wrap_tag")

TamperedCase(f) == last.op = "decrypt" /\ held.edit = f

\* both texts are hex of the same byte length and differ in exactly one byte
OneByteChanged(old, new) ==
  /\ IsHex(old) /\ IsHex(new) /\ Len(old) = Len(new)
  /\ Cardinality({i \in 1..(Len(old) \div 2) : HexDecode(old)[i] # HexDecode(new)[i]}) = 1

AuthenticatedFields == {"payload_ct", "payload_tag", "dek_wrapped", "dek_wrap_tag"}

\* C2: after one byte of payload_ct, payload_tag, dek_wrapped or dek_wrap_tag of
\* a record written by envelopeEncrypt is changed (the field staying valid
\* hex), envelopeDecrypt with the same registry fails with AuthenticationFailed
C2_TamperDetected ==
  \A f \in AuthenticatedFields :
    (TamperedCase(f) /\ OneByteChanged(Origin.record[f], held.rec[f]))
      => FailsWith("AuthenticationFailed")

C2_Witness ==
  /\ TamperedCase("payload_ct")
  /\ OneByteChanged(Origin.record.payload_ct, held.rec.payload_ct)
  /\ FailsWith("AuthenticationFailed")
  /\ Len(last.out.steps) = 4

\* the payload layer alone, under the DEK of the record as written and the
\* partyId of the held record
PayloadLayerOfHeld ==
  LET dek == aesGcmDecrypt(Origin.registry[Origin.record.mk_version],
                           Origin.record.dek_wrap_nonce, Origin.record.dek_wrapped,
                           Origin.record.dek_wrap_tag, AadOf(Origin.partyId))
  IN  aesGcmDecrypt(dek.value, held.rec.payload_nonce, held.rec.payload_ct,
                    held.rec.payload_tag, AadOf(held.rec.partyId))

\* C3: after the partyId of a record written by envelopeEncrypt is replaced by
\* another one, envelopeDecrypt fails with AuthenticationFailed, at the DEK
\* unwrap, and the payload layer does not authenticate under the new partyId
\* either
C3_AadBinding ==
  TamperedCase("partyId") =>
    /\ FailsWith("AuthenticationFailed")
    /\ last.out.steps = <<"validateRecord", "getKey", "unwrapDek">>
    /\ PayloadLayerOfHeld = Err(AuthenticationFailed)

C3_Witness ==
  /\ TamperedCase("partyId")
  /\ held.rec.partyId = <<"q">>
  /\ Origin.partyId = <<"p">>
  /\ FailsWith("AuthenticationFailed")

\* the fields C4 names
ClaimedFields == Fields \ {"createdAt"}

\* C4 as stated: after any one field of a record written by envelopeEncrypt is
\* replaced by a different value, envelopeDecrypt with the same registry fails
C4_AnyFieldChangeDetected ==
  \A f \in ClaimedFields : TamperedCase(f) => ~last.out.res.ok

\* the held binary field decodes to the bytes envelopeEncrypt wrote
SameBytes(f) ==
  IsHex(held.rec[f]) /\ HexDecode(held.rec[f]) = HexDecode(Origin.record[f])

\* C4 amended: envelopeDecrypt fails after partyId is replaced, after
\* mk_version is replaced by a version that is absent or holds another key, and
\* after a binary field is replaced by text that is not hex of the same bytes;
\* it returns the payload as written after id, alg or createdAt is replaced and
\* after the hex digits of a binary field are respelled in the other case
C4_AuthenticatedFieldsOnly ==
  /\ \A f \in {"partyId", "mk_version"} : TamperedCase(f) => ~last.out.res.ok
  /\ \A f \in BinaryFields : (TamperedCase(f) /\ ~SameBytes(f)) => ~last.out.res.ok
  /\ \A f \in BinaryFields :
       (TamperedCase(f) /\ SameBytes(f)) =>
          (last.out.res.ok /\ last.out.res.value = Origin.payload)
  /\ \A f \in {"id", "alg", "createdAt"} :
       TamperedCase(f) => (last.out.res.ok /\ last.out.res.value = Origin.payload)

C4_Witness ==
  /\ TamperedCase("mk_version")
  /\ held.rec.mk_version \in DOMAIN registry
  /\ FailsWith("AuthenticationFailed")

\* ----- the response to an authentication failure (section 7) -----

\* the held record fails authentication for one of these reasons: a byte of one
\* of its six binary fields was changed, its partyId was replaced, or its
\* mk_version was replaced by a version that holds another master key
AuthenticationCauses ==
  [f \in BinaryFields |->
     TamperedCase(f) /\ OneByteChanged(Origin.record[f], held.rec[f])]
  @@ [f \in {"partyId"} |-> TamperedCase("partyId")]
  @@ [f \in {"mk_version"} |->
        /\ TamperedCase("mk_version")
        /\ held.rec.mk_version \in DOMAIN registry
        /\ registry[held.rec.mk_version] # Origin.registry[Origin.record.mk_version]]

\* C11: the error envelopeDecrypt returns for an authentication failure is one
\* value, whichever input caused the failure: a wrong master key, a changed
\* byte of a field of the wrap layer or of the payload layer, or a replaced
\* partyId; the response does not tell the layers apart
C11_NoFailureOracle ==
  /\ \A cause \in DOMAIN AuthenticationCauses :
       AuthenticationCauses[cause] => last.out.res = Err(AuthenticationFailed)
  /\ (last.op = "decrypt" /\ FailsWith("AuthenticationFailed"))
       => last.out.res = Err(AuthenticationFailed)

C11_Witness ==
  /\ AuthenticationCauses["payload_nonce"]
  /\ last.out.res = Err(AuthenticationFailed)
  /\ last.out.steps = <<"validateRecord", "getKey", "unwrapDek", "decryptPayload">>

\* ----- freshness of DEKs and nonces (sections 4.2 and 8) -----

\* the number of envelopeEncrypt calls of a sequence
MaxCalls == 2

\* the configurations the registry is rebuilt from between the calls
RotationEnvs == {EnvV1, EnvV1V2, EnvV1Rekeyed}

InitCalls ==
  /\ ServerIdle
  /\ \E env \in RotationEnvs : registry = buildKeyRegistry(env).value
  /\ produced = <<>>
  /\ held = NoHeld
  /\ last = [op |-> "none"]

\* one more envelopeEncrypt call on the current registry; each call makes the
\* next three draws of randomBytes
EncryptCall(id, partyId, payload) ==
  /\ Len(produced) < MaxCalls
  /\ LET res == envelopeEncrypt(registry, id, partyId, payload,
                                3 * Len(produced), 0, Len(produced) + 1)
     IN  /\ last' = [op |-> "encrypt", id |-> id, partyId |-> partyId,
                     payload |-> payload, res |-> res]
         /\ produced' = Append(produced, Written(res.value, id, partyId, payload, registry))
  /\ UNCHANGED <<registry, held, serverVars>>

NextCalls ==
  \/ \E env \in RotationEnvs : BuildKeyRegistry(env)
  \/ \E rq \in Requests : EncryptCall(rq[1], rq[2], rq[3])

SpecCalls == InitCalls /\ [][NextCalls]_vars

\* the master key of the i-th call and the DEK it generated
MasterKeyOf(i) == produced[i].registry[produced[i].record.mk_version]
DekOf(i) ==
  aesGcmDecrypt(MasterKeyOf(i), produced[i].record.dek_wrap_nonce,
                produced[i].record.dek_wrapped, produced[i].record.dek_wrap_tag,
                AadOf(produced[i].partyId)).value

\* the (key, nonce) pairs the i-th call encrypted under
PairsOf(i) ==
  { <<DekOf(i), HexDecode(produced[i].record.payload_nonce)>>,
    <<MasterKeyOf(i), HexDecode(produced[i].record.dek_wrap_nonce)>> }

\* C12: any two envelopeEncrypt calls, also with the same registry, id, partyId
\* and payload, use different DEKs and different nonces, and their records
\* differ in payload_nonce, payload_ct, dek_wrap_nonce and dek_wrapped; no
\* (key, nonce) pair is used twice over the calls, for a master key or a DEK
C12_Freshness ==
  \A i, j \in 1..Len(produced) :
    i < j =>
      /\ DekOf(i) # DekOf(j)
      /\ {produced[i].record.payload_nonce, produced[i].record.dek_wrap_nonce}
           \cap {produced[j].record.payload_nonce, produced[j].record.dek_wrap_nonce} = {}
      /\ produced[i].record.payload_nonce # produced[i].record.dek_wrap_nonce
      /\ produced[i].record.payload_ct # produced[j].record.payload_ct
      /\ produced[i].record.dek_wrapped # produced[j].record.dek_wrapped
      /\ Cardinality(PairsOf(i)) = 2
      /\ PairsOf(i) \cap PairsOf(j) = {}

C12_Witness ==
  /\ Len(produced) = 2
  /\ produced[1].registry = produced[2].registry
  /\ produced[1].id = produced[2].id
  /\ produced[1].partyId = produced[2].partyId
  /\ produced[1].payload = produced[2].payload
  /\ produced[1].record.payload_ct # produced[2].record.payload_ct
  /\ DekOf(1) # DekOf(2)

\* ----- confinement of keys and plaintext (sections 4.2, 4.3 and 7) -----

\* the text holds the hex digits of these bytes somewhere
Contains(text, bytes) ==
  LET hex == HexEncode(bytes) IN
  \E i \in 0..(Len(text) - Len(hex)) : SubSeq(text, i + 1, i + Len(hex)) = hex

\* a binary field of the record holds these bytes
Holds(record, bytes) == \E f \in BinaryFields : Contains(record[f], bytes)

\* the master keys of a registry
KeysOf(reg) == {reg[v] : v \in DOMAIN reg}

\* the errors envelopeDecrypt builds from field names, byte counts and version
\* numbers alone
SecretFreeErrors ==
  {AuthenticationFailed, CorruptPayload, InvalidKeyLength}
  \cup { MalformedEncoding(f) : f \in BinaryFields }
  \cup { LengthMismatch(f, ExpectedBytes(f), n) : f \in LengthFields, n \in 0..64 }
  \cup { UnknownKeyVersion(v, DOMAIN registry) : v \in 0..3 }

\* the DEK and the plaintext the decrypt call of the held record gets hold of,
\* <<>> when it does not get that far
UnwrappedOfHeld ==
  IF held.rec.mk_version \in DOMAIN registry /\ validateRecord(held.rec).ok
  THEN LET dek == aesGcmDecrypt(registry[held.rec.mk_version], held.rec.dek_wrap_nonce,
                                held.rec.dek_wrapped, held.rec.dek_wrap_tag,
                                AadOf(held.rec.partyId))
       IN  IF dek.ok THEN dek.value ELSE <<>>
  ELSE <<>>

DecryptedOfHeld ==
  IF Len(UnwrappedOfHeld) = DEK_BYTES
  THEN LET text == aesGcmDecrypt(UnwrappedOfHeld, held.rec.payload_nonce, held.rec.payload_ct,
                                 held.rec.payload_tag, AadOf(held.rec.partyId))
       IN  IF text.ok THEN text.value ELSE <<>>
  ELSE <<>>

\* C13: the record envelopeEncrypt returns holds neither the DEK of the call
\* nor a master key in the clear; an error of envelopeDecrypt is made of the
\* failure kind, field names, byte counts and version numbers, never of key
\* bytes or decrypted text; what is kept after a call is the record as
\* written, no DEK (looked at when a decrypt call has returned)
C13_SecretConfinement ==
  /\ DecryptCase =>
       \A i \in 1..Len(produced) :
         LET dek == DekOf(i) IN
         /\ ~Holds(produced[i].record, dek)
         /\ \A key \in KeysOf(produced[i].registry) : ~Holds(produced[i].record, key)
  /\ (DecryptCase /\ ~last.out.res.ok) => last.out.res.error \in SecretFreeErrors
  /\ (DecryptCase /\ UnwrappedOfHeld # <<>>) => ~Holds(held.rec, UnwrappedOfHeld)

C13_Witness ==
  /\ DecryptCase
  /\ DecryptedOfHeld \in {Utf8Encode(text) : text \in NotJson}
  /\ last.out.res = Err(CorruptPayload)
  /\ ~Holds(produced[1].record, DekOf(1))

\* ----- buildKeyRegistry on arbitrary configurations (section 4.1) -----

\* the number of entries of a configuration
MaxEntries == 2

\* the names and values of the entries: the legacy name and versioned names,
\* one with version 0 and one with a leading zero; two keys, an empty value, a
\* key of 31 bytes and a key that is not hex
ConfigNames == {LegacyName, V(<<"0">>), V(<<"1">>), V(<<"2">>), V(<<"0", "1">>)}
ConfigValues ==
  {KeyHex(1), KeyHex(2), <<>>, SubSeq(KeyHex(1), 1, 62), <<"z", "z">> \o SubSeq(KeyHex(1), 3, 64)}

\* a configuration has one value for a name
Configs ==
  { env \in UNION { [1..n -> {Entry(name, value) : name \in ConfigNames, value \in ConfigValues}] :
                      n \in 0..MaxEntries } :
      \A i, j \in 1..Len(env) : env[i].name = env[j].name => i = j }

\* a process starts with a configuration as its environment
InitRegistry ==
  /\ ServerIdle
  /\ registry = EmptyRegistry
  /\ produced = <<>>
  /\ held = NoHeld
  /\ \E env \in Configs : last = [op |-> "start", env |-> env]

\* buildKeyRegistry(env) on the configuration of the process
Configure ==
  /\ last.op = "start"
  /\ LET built == buildKeyRegistry(last.env) IN
      /\ registry' = IF built.ok THEN built.value ELSE registry
      /\ last' = [op |-> "configure", env |-> last.env, res |-> built]
  /\ UNCHANGED <<produced, held, serverVars>>

\* envelopeEncrypt on the registry that was built
EncryptOnce(id, partyId, payload) ==
  /\ last.op = "configure"
  /\ last.res.ok
  /\ LET res == envelopeEncrypt(registry, id, partyId, payload, 0, 0, 1) IN
      /\ last' = [op |-> "encrypt", id |-> id, partyId |-> partyId,
                  payload |-> payload, res |-> res]
      /\ produced' = IF res.ok
                      THEN Append(produced, Written(res.value, id, partyId, payload, registry))
                      ELSE produced
  /\ UNCHANGED <<registry, held, serverVars>>

NextRegistry ==
  \/ Configure
  \/ \E rq \in Requests : EncryptOnce(rq[1], rq[2], rq[3])

SpecRegistry == InitRegistry /\ [][NextRegistry]_vars

\* buildKeyRegistry has returned for a configuration
ConfigureCase == last.op = "configure"

\* the entries that supply a versioned key, and the one that supplies the legacy key
VersionedEntries(env) ==
  {i \in 1..Len(env) : MatchesVersioned(env[i].name) /\ env[i].value # <<>>}
LegacyEntries(env) ==
  {i \in 1..Len(env) : env[i].name = LegacyName /\ env[i].value # <<>>}

\* the configuration holds the legacy key alone
LegacyOnly(env) == Len(env) = 1 /\ LegacyEntries(env) = {1}

\* the payload envelopeDecrypt returns under registry reg for the record
\* envelopeEncrypt returns under registry other
CrossDecrypt(reg, other, rq) ==
  envelopeDecrypt(reg, envelopeEncrypt(other, rq[1], rq[2], rq[3], 0, 0, 1).value).res

\* C14: the registry built from MASTER_KEY=k alone is the registry built from
\* MASTER_KEY_V1=k alone: version set {1}, the same key, encrypt writes
\* mk_version 1, and a record written under either decrypts under the other
C14_LegacyFallbackEquivalence ==
  (ConfigureCase /\ LegacyOnly(last.env) /\ last.res.ok) =>
    LET legacy == last.res.value
        versioned == buildKeyRegistry(<<Entry(V(<<"1">>), last.env[1].value)>>)
    IN  /\ versioned.ok
        /\ versioned.value = legacy
        /\ DOMAIN legacy = {1}
        /\ legacy[1] = HexDecode(last.env[1].value)
        /\ \A rq \in Requests :
             /\ envelopeEncrypt(legacy, rq[1], rq[2], rq[3], 0, 0, 1).value.mk_version = 1
             /\ envelopeEncrypt(versioned.value, rq[1], rq[2], rq[3], 0, 0, 1).value.mk_version = 1
             /\ CrossDecrypt(legacy, versioned.value, rq) = Ok(rq[3])
             /\ CrossDecrypt(versioned.value, legacy, rq) = Ok(rq[3])

C14_Witness ==
  /\ ConfigureCase
  /\ last.env = <<Entry(LegacyName, KeyHex(2))>>
  /\ last.res.ok
  /\ DOMAIN registry = {1}
  /\ registry[1] = KeyBytes(2)

\* the version numbers of the versioned keys of a configuration, and the key
\* of a version: that of the last entry with this number
VersionsOf(env) == {ParseVersion(env[i].name) : i \in VersionedEntries(env)}
KeyFor(env, v) ==
  LET entries == {i \in VersionedEntries(env) : ParseVersion(env[i].name) = v}
      i == CHOOSE i \in entries : \A j \in entries : j <= i
  IN  HexDecode(env[i].value)

\* the configuration without its legacy entry
WithoutLegacy(env) == SelectSeq(env, LAMBDA e : e.name # LegacyName)

\* C15: when a configuration holds a versioned key and the legacy key, the
\* registry built holds exactly the versioned entries; the legacy key is not
\* merged in, not as version 1 either when no versioned entry has version 1
C15_VersionedExcludeLegacy ==
  (ConfigureCase /\ VersionedEntries(last.env) # {} /\ LegacyEntries(last.env) # {}) =>
    /\ last.res = buildKeyRegistry(WithoutLegacy(last.env))
    /\ last.res.ok =>
         /\ DOMAIN last.res.value = VersionsOf(last.env)
         /\ \A v \in VersionsOf(last.env) : last.res.value[v] = KeyFor(last.env, v)
         /\ 1 \notin VersionsOf(last.env) => 1 \notin DOMAIN last.res.value

C15_Witness ==
  /\ ConfigureCase
  /\ last.env = <<Entry(LegacyName, KeyHex(1)), Entry(V(<<"2">>), KeyHex(2))>>
  /\ last.res.ok
  /\ DOMAIN registry = {2}
  /\ registry[2] = KeyBytes(2)

\* C16: a registry returned by buildKeyRegistry holds at least one version and
\* keys of exactly 32 bytes; a configuration in which no entry supplies a key
\* fails with NoKeysConfigured, and a failed construction returns no registry
C16_RegistryInvariant ==
  ConfigureCase =>
    /\ last.res.ok =>
         /\ DOMAIN last.res.value # {}
         /\ \A v \in DOMAIN last.res.value : Len(last.res.value[v]) = MASTER_KEY_BYTES
         /\ registry = last.res.value
    /\ (VersionedEntries(last.env) = {} /\ LegacyEntries(last.env) = {})
         => last.res = Err(NoKeysConfigured)
    /\ ~last.res.ok => registry = EmptyRegistry

C16_Witness ==
  /\ ConfigureCase
  /\ last.res.ok
  /\ DOMAIN registry = {1, 2}
  /\ \A v \in DOMAIN registry : Len(registry[v]) = MASTER_KEY_BYTES

\* C17: every version number of a registry returned by buildKeyRegistry is a
\* positive integer, for every configuration
C17_VersionsPositive ==
  (ConfigureCase /\ last.res.ok) => \A v \in DOMAIN last.res.value : v >= 1

\* MASTER_KEY_V0 is taken as a versioned key: the registry holds version 0
C17_Witness ==
  /\ ConfigureCase
  /\ last.env = <<Entry(V(<<"0">>), KeyHex(1))>>
  /\ last.res = Ok(SetKey(EmptyRegistry, 0, KeyBytes(1)))
  /\ getLatestVersion(registry) = 0

\* ----- envelopeEncrypt on the registries buildKeyRegistry returns (section 4.2) -----

\* envelopeEncrypt has returned or failed
EncryptReturned == last.op = "encrypt"

\* C18: on a registry returned by buildKeyRegistry, with a non-empty id and
\* partyId and a JSON object as payload, envelopeEncrypt returns a record and
\* does not fail; getLatestVersion names a version that getKey finds
C18_EncryptTotal ==
  (EncryptReturned /\ last.id # <<>> /\ last.partyId # <<>> /\ last.payload.t = "obj") =>
    /\ last.res.ok
    /\ getLatestVersion(registry) \in DOMAIN registry
    /\ getKey(registry, getLatestVersion(registry)) = Ok(registry[getLatestVersion(registry)])
    /\ last.res.value.mk_version = getLatestVersion(registry)

C18_Witness ==
  /\ EncryptReturned
  /\ DOMAIN registry = {0}
  /\ last.payload = PayloadTwo
  /\ last.res.ok
  /\ last.res.value.mk_version = 0

\* ----- validateHex on arbitrary text (section 5) -----

\* the length of the text validateHex is given
MaxLen == 4

\* characters of the text: digits and letters in and out of the hex range, in
\* both cases
CodecChars == {"0", "9", "a", "F", "g", "z"}
CodecTexts == UNION { [1..n -> CodecChars] : n \in 0..MaxLen }

\* the expectedBytes argument, absent or a byte count
CodecExpected == {NoLength, 0, 1, 2}

InitCodec ==
  /\ ServerIdle
  /\ registry = EmptyRegistry
  /\ produced = <<>>
  /\ held = NoHeld
  /\ \E text \in CodecTexts, expected \in CodecExpected :
       last = [op |-> "text", value |-> text, label |-> "field", expectedBytes |-> expected]

\* validateHex(value, label, expectedBytes)
ValidateHex ==
  /\ last.op = "text"
  /\ last' = [op |-> "validateHex", value |-> last.value, label |-> last.label,
              expectedBytes |-> last.expectedBytes,
              res |-> validateHex(last.value, last.label, last.expectedBytes)]
  /\ UNCHANGED <<registry, produced, held, serverVars>>

NextCodec == ValidateHex

SpecCodec == InitCodec /\ [][NextCodec]_vars

\* validateHex has returned for a text
ValidateCase == last.op = "validateHex"

\* the text has a character outside 0-9, a-f, A-F or an odd length
BadEncoding(text) ==
  \/ \E i \in 1..Len(text) :
       text[i] \notin {"0", "1", "2", "3", "4", "5", "6", "7", "8", "9",
                       "a", "b", "c", "d", "e", "f", "A", "B", "C", "D", "E", "F"}
  \/ Len(text) % 2 = 1

\* the value of a hex digit, and the bytes a hex text stands for
NibbleOf(c) ==
  CASE c \in {"a", "A"} -> 10 [] c \in {"b", "B"} -> 11 [] c \in {"c", "C"} -> 12
    [] c \in {"d", "D"} -> 13 [] c \in {"e", "E"} -> 14 [] c \in {"f", "F"} -> 15
    [] OTHER -> DigitVal(c)
BytesOf(text) ==
  [i \in 1..(Len(text) \div 2) |-> 16 * NibbleOf(text[2 * i - 1]) + NibbleOf(text[2 * i])]

\* C19: validateHex fails with MalformedEncoding exactly when the text has a
\* character that is not a hex digit or an odd length; otherwise with
\* LengthMismatch of the expected and the decoded byte count exactly when a
\* count is expected and is not half the length of the text; otherwise it
\* returns the decoded bytes
C19_CodecDecisionTable ==
  ValidateCase =>
    LET bad == BadEncoding(last.value)
        off == last.expectedBytes # NoLength /\ last.expectedBytes # Len(last.value) \div 2
    IN  /\ bad <=> last.res = Err(MalformedEncoding(last.label))
        /\ (~bad /\ off) <=>
             last.res = Err(LengthMismatch(last.label, last.expectedBytes, Len(last.value) \div 2))
        /\ (~bad /\ ~off) <=> last.res.ok
        /\ (~bad /\ ~off) => last.res.value = BytesOf(last.value)

C19_Witness ==
  /\ ValidateCase
  /\ last.value = <<"g", "0">>
  /\ last.expectedBytes = 2
  /\ last.res = Err(MalformedEncoding("field"))

\* the text is made of the digits 0-9 and a-f, two for each of n bytes
LowerHexOf(text, n) ==
  /\ Len(text) = 2 * n
  /\ \A i \in 1..Len(text) :
       text[i] \in {"0", "1", "2", "3", "4", "5", "6", "7", "8", "9", "a", "b", "c", "d", "e", "f"}

\* C20: a record returned by envelopeEncrypt carries the id and partyId of the
\* call, alg "AES-256-GCM" and the highest version of the registry, its binary
\* fields are lowercase hex of exact size: nonces of 12 bytes, tags of 16
\* bytes, dek_wrapped of 32 bytes, payload_ct of the size of the JSON text; the
\* record passes validateRecord
C20_WireFormat ==
  (EncryptReturned /\ last.res.ok) =>
    LET record == last.res.value IN
    /\ DOMAIN record = Fields
    /\ record.id = last.id
    /\ record.partyId = last.partyId
    /\ record.alg = "AES-256-GCM"
    /\ record.mk_version \in DOMAIN registry
    /\ \A v \in DOMAIN registry : v <= record.mk_version
    /\ LowerHexOf(record.payload_nonce, 12)
    /\ LowerHexOf(record.dek_wrap_nonce, 12)
    /\ LowerHexOf(record.payload_tag, 16)
    /\ LowerHexOf(record.dek_wrap_tag, 16)
    /\ LowerHexOf(record.dek_wrapped, 32)
    /\ LowerHexOf(record.payload_ct, Len(Utf8Encode(JsonStringify(last.payload))))
    /\ validateRecord(record) = Ok(<<>>)

C20_Witness ==
  /\ EncryptReturned
  /\ last.res.ok
  /\ DOMAIN registry = {1, 2}
  /\ last.res.value.mk_version = 2
  /\ last.res.value.id = <<"y">>
  /\ Len(last.res.value.dek_wrapped) = 64
  /\ Len(last.res.value.payload_ct) = 2 * Len(JsonStringify(PayloadTwo))

\* ----- text that is not JSON (sections 4.3 and 7) -----

\* both layers of the held record authenticate: the wrap under the master key
\* of its mk_version, the payload under the DEK that was unwrapped
BothAuthenticate ==
  /\ ~Malformed
  /\ VersionPresent
  /\ WrapAuthentic
  /\ Len(UnwrappedOfHeld) = DEK_BYTES
  /\ Authentic(UnwrappedOfHeld, "payload_nonce", "payload_ct", "payload_tag")

\* the text the payload layer of the held record decrypts to
RecoveredText ==
  Utf8Decode(GcmDecryptBytes(UnwrappedOfHeld, HexDecode(held.rec.payload_nonce),
                             HexDecode(held.rec.payload_ct)))

\* C21: when both layers authenticate and the recovered text is not JSON,
\* envelopeDecrypt fails with CorruptPayload, which is not the error of an
\* authentication failure, and returns no value; CorruptPayload is returned in
\* no other case, and never for a record as envelopeEncrypt produced it
C21_CorruptPayload ==
  DecryptCase =>
    /\ (BothAuthenticate /\ ~JsonParse(RecoveredText).ok) =>
         /\ last.out.res = Err(CorruptPayload)
         /\ last.out.res # Err(AuthenticationFailed)
         /\ ~last.out.res.ok
    /\ FailsWith("CorruptPayload") => (BothAuthenticate /\ ~JsonParse(RecoveredText).ok)
    /\ held.rec = Origin.record => ~FailsWith("CorruptPayload")
    /\ \A i \in 1..Len(produced) :
         JsonParse(JsonStringify(produced[i].payload)) = [ok |-> TRUE, val |-> produced[i].payload]

C21_Witness ==
  /\ DecryptCase
  /\ BothAuthenticate
  /\ RecoveredText = <<"{">>
  /\ last.out.res = Err(CorruptPayload)
  /\ last.out.steps = StepOrder

\* ----- calls in progress at the same time on one registry -----

\* the calls followed at once
MaxInFlight == 2

\* a decrypt call that holds the DEK it unwrapped and has not used it yet
HoldsDek(c) == c.op = "decrypt" /\ c.pc = "decryptPayload"

\* the DEK unwrapped by a call is kept in one variable of the module, which
\* every call in progress reads
UnwrapDek_SharedDek(i, dek) ==
  calls' = [j \in DOMAIN calls |->
              IF j = i
              THEN [calls[j] EXCEPT !.dek = dek, !.pc = "decryptPayload",
                                    !.steps = Append(@, "unwrapDek")]
              ELSE IF HoldsDek(calls[j]) THEN [calls[j] EXCEPT !.crossed = TRUE, !.dek = dek]
              ELSE calls[j]]

\* const dek = aesGcmDecrypt(...): the DEK is a local of the call. crossed
\* notes, for the calls that hold a DEK, that another call has unwrapped one
UnwrapDek(i, dek) ==
  calls' = [j \in DOMAIN calls |->
              IF j = i
              THEN [calls[j] EXCEPT !.dek = dek, !.pc = "decryptPayload",
                                    !.steps = Append(@, "unwrapDek")]
              ELSE IF HoldsDek(calls[j]) THEN [calls[j] EXCEPT !.crossed = TRUE]
              ELSE calls[j]]

NoEnc == [nonce |-> <<>>, ct |-> <<>>, tag |-> <<>>]
NoOutcome == Outcome(Err(AuthenticationFailed), <<>>)

\* a call at its first statement, none of its locals assigned
NewCall(op, record, rq) ==
  [op |-> op, record |-> record, id |-> rq[1], partyId |-> rq[2], payload |-> rq[3],
   pc |-> IF op = "decrypt" THEN "validateRecord" ELSE "getKey",
   steps |-> <<>>, crossed |-> FALSE,
   mkVersion |-> 0, masterKey |-> <<>>, dek |-> <<>>, plaintext |-> <<>>,
   payloadEnc |-> NoEnc, dekEnc |-> NoEnc, draws |-> <<>>, now |-> 0,
   out |-> NoOutcome]

NoRequest == <<(<<>>), (<<>>), PayloadEmpty>>

\* call i goes from its state to c; no other call changes
Step(i, c) == calls' = [calls EXCEPT ![i] = c]

\* the step named step is made; the call throws or returns res, or goes on at pc
Did(c, step) == [c EXCEPT !.steps = Append(@, step)]
Returned(c, step, res) ==
  [c EXCEPT !.pc = "done", !.steps = Append(@, step), !.out = Outcome(res, Append(c.steps, step))]

\* the randomBytes draws made so far: three for each record of Init, and those
\* of the calls
RECURSIVE DrawsOf(_)
DrawsOf(cs) == IF cs = <<>> THEN 0 ELSE Len(Head(cs).draws) + DrawsOf(Tail(cs))
Drawn == 3 * Len(produced) + DrawsOf(calls)

\* the records handed to envelopeDecrypt: the first record of Init, and the
\* second with its payload tag changed
DecryptArgs ==
  { produced[1].record, [produced[2].record EXCEPT !.payload_tag = FlipByte(@, 1, 1)] }

ConcurrentRequests == { <<(<<"y">>), (<<"p">>), PayloadTwo>> }

InitConcurrent ==
  /\ InstancesIdle /\ ApiIdle /\ ServerlessIdle
  /\ registry = buildKeyRegistry(EnvV1V2).value
  /\ produced =
       LET rqA == <<(<<"x">>), (<<"p">>), PayloadEmpty>>
           rqB == <<(<<"x">>), (<<"q">>), PayloadAmount>>
       IN  << Written(envelopeEncrypt(registry, rqA[1], rqA[2], rqA[3], 0, 0, 1).value,
                      rqA[1], rqA[2], rqA[3], registry),
              Written(envelopeEncrypt(registry, rqB[1], rqB[2], rqB[3], 3, 0, 2).value,
                      rqB[1], rqB[2], rqB[3], registry) >>
  /\ held = NoHeld
  /\ last = [op |-> "none"]
  /\ calls = <<>>

\* a caller calls envelopeDecrypt(registry, record)
IssueDecrypt(record) ==
  /\ Len(calls) < MaxInFlight
  /\ calls' = Append(calls, NewCall("decrypt", record, NoRequest))
  /\ UNCHANGED <<engineVars, instanceVars, apiVars, serverlessVars>>

\* a caller calls envelopeEncrypt(registry, id, partyId, payload)
IssueEncrypt(rq) ==
  /\ Len(calls) < MaxInFlight
  /\ calls' = Append(calls, NewCall("encrypt", NoRecord, rq))
  /\ UNCHANGED <<engineVars, instanceVars, apiVars, serverlessVars>>

\* validateRecord(record)
DecryptValidate(i) ==
  /\ calls[i].op = "decrypt" /\ calls[i].pc = "validateRecord"
  /\ LET valid == validateRecord(calls[i].record)
     IN  Step(i, IF valid.ok THEN [Did(calls[i], "validateRecord") EXCEPT !.pc = "getKey"]
                 ELSE Returned(calls[i], "validateRecord", valid))
  /\ UNCHANGED <<engineVars, instanceVars, apiVars, serverlessVars>>

\* const masterKey = getKey(registry, record.mk_version)
DecryptGetKey(i) ==
  /\ calls[i].op = "decrypt" /\ calls[i].pc = "getKey"
  /\ LET masterKey == getKey(registry, calls[i].record.mk_version)
     IN  Step(i, IF masterKey.ok
                 THEN [Did(calls[i], "getKey") EXCEPT !.pc = "unwrapDek", !.masterKey = masterKey.value]
                 ELSE Returned(calls[i], "getKey", masterKey))
  /\ UNCHANGED <<engineVars, instanceVars, apiVars, serverlessVars>>

\* const dek = aesGcmDecrypt(masterKey, dek_wrap_nonce, dek_wrapped, dek_wrap_tag, aad)
DecryptUnwrapDek(i) ==
  /\ calls[i].op = "decrypt" /\ calls[i].pc = "unwrapDek"
  /\ LET c == calls[i]
         dek == aesGcmDecrypt(c.masterKey, c.record.dek_wrap_nonce, c.record.dek_wrapped,
                              c.record.dek_wrap_tag, AadOf(c.record.partyId))
     IN  IF dek.ok THEN UnwrapDek(i, dek.value)
         ELSE Step(i, Returned(c, "unwrapDek", dek))
  /\ UNCHANGED <<engineVars, instanceVars, apiVars, serverlessVars>>

\* const plaintext = aesGcmDecrypt(dek, payload_nonce, payload_ct, payload_tag, aad)
DecryptPayload(i) ==
  /\ calls[i].op = "decrypt" /\ calls[i].pc = "decryptPayload"
  /\ LET c == calls[i]
         plaintext == aesGcmDecrypt(c.dek, c.record.payload_nonce, c.record.payload_ct,
                                    c.record.payload_tag, AadOf(c.record.partyId))
     IN  Step(i, IF plaintext.ok
                 THEN [Did(c, "decryptPayload") EXCEPT !.pc = "parse", !.plaintext = plaintext.value]
                 ELSE Returned(c, "decryptPayload", plaintext))
  /\ UNCHANGED <<engineVars, instanceVars, apiVars, serverlessVars>>

\* return JSON.parse(plaintext.toString("utf-8")), or the fixed error
DecryptParse(i) ==
  /\ calls[i].op = "decrypt" /\ calls[i].pc = "parse"
  /\ LET parsed == JsonParse(Utf8Decode(calls[i].plaintext))
     IN  Step(i, Returned(calls[i], "parse",
                          IF parsed.ok THEN Ok(parsed.val) ELSE Err(CorruptPayload)))
  /\ UNCHANGED <<engineVars, instanceVars, apiVars, serverlessVars>>

\* const mkVersion = getLatestVersion(registry); const masterKey = getKey(registry, mkVersion)
EncryptGetKey(i) ==
  /\ calls[i].op = "encrypt" /\ calls[i].pc = "getKey"
  /\ LET mkVersion == getLatestVersion(registry)
         masterKey == getKey(registry, mkVersion)
     IN  Step(i, IF masterKey.ok
                 THEN [Did(calls[i], "getKey") EXCEPT !.pc = "generateDek", !.mkVersion = mkVersion,
                                                      !.masterKey = masterKey.value]
                 ELSE Returned(calls[i], "getKey", masterKey))
  /\ UNCHANGED <<engineVars, instanceVars, apiVars, serverlessVars>>

\* const dek = randomBytes(DEK_BYTES)
EncryptGenerateDek(i) ==
  /\ calls[i].op = "encrypt" /\ calls[i].pc = "generateDek"
  /\ Step(i, [Did(calls[i], "generateDek") EXCEPT
                !.pc = "encryptPayload", !.draws = Append(@, Drawn + 1),
                !.dek = randomBytes(DEK_BYTES, Drawn + 1, 0)])
  /\ UNCHANGED <<engineVars, instanceVars, apiVars, serverlessVars>>

\* const payloadEnc = aesGcmEncrypt(dek, plaintext, aad)
EncryptPayload(i) ==
  /\ calls[i].op = "encrypt" /\ calls[i].pc = "encryptPayload"
  /\ LET c == calls[i]
         plaintext == Utf8Encode(JsonStringify(c.payload))
     IN  Step(i, [Did(c, "encryptPayload") EXCEPT
                    !.pc = "wrapDek", !.draws = Append(@, Drawn + 1),
                    !.payloadEnc = aesGcmEncrypt(c.dek, plaintext, AadOf(c.partyId), Drawn + 1, 0)])
  /\ UNCHANGED <<engineVars, instanceVars, apiVars, serverlessVars>>

\* const dekEnc = aesGcmEncrypt(masterKey, dek, aad)
EncryptWrapDek(i) ==
  /\ calls[i].op = "encrypt" /\ calls[i].pc = "wrapDek"
  /\ LET c == calls[i]
     IN  Step(i, [Did(c, "wrapDek") EXCEPT
                    !.pc = "return", !.draws = Append(@, Drawn + 1),
                    !.dekEnc = aesGcmEncrypt(c.masterKey, c.dek, AadOf(c.partyId), Drawn + 1, 0)])
  /\ UNCHANGED <<engineVars, instanceVars, apiVars, serverlessVars>>

\* return { id, partyId, createdAt: new Date().toISOString(), ... }
EncryptReturn(i, now) ==
  /\ calls[i].op = "encrypt" /\ calls[i].pc = "return"
  /\ LET c == calls[i]
     IN  Step(i, [Returned(c, "return",
                           Ok([id |-> c.id,
                               partyId |-> c.partyId,
                               createdAt |-> now,
                               payload_nonce |-> c.payloadEnc.nonce,
                               payload_ct |-> c.payloadEnc.ct,
                               payload_tag |-> c.payloadEnc.tag,
                               dek_wrap_nonce |-> c.dekEnc.nonce,
                               dek_wrapped |-> c.dekEnc.ct,
                               dek_wrap_tag |-> c.dekEnc.tag,
                               alg |-> ALG,
                               mk_version |-> c.mkVersion])) EXCEPT !.now = now])
  /\ UNCHANGED <<engineVars, instanceVars, apiVars, serverlessVars>>

NextConcurrent ==
  \/ \E record \in DecryptArgs : IssueDecrypt(record)
  \/ \E rq \in ConcurrentRequests : IssueEncrypt(rq)
  \/ \E i \in DOMAIN calls : DecryptValidate(i)
  \/ \E i \in DOMAIN calls : DecryptGetKey(i)
  \/ \E i \in DOMAIN calls : DecryptUnwrapDek(i)
  \/ \E i \in DOMAIN calls : DecryptPayload(i)
  \/ \E i \in DOMAIN calls : DecryptParse(i)
  \/ \E i \in DOMAIN calls : EncryptGetKey(i)
  \/ \E i \in DOMAIN calls : EncryptGenerateDek(i)
  \/ \E i \in DOMAIN calls : EncryptPayload(i)
  \/ \E i \in DOMAIN calls : EncryptWrapDek(i)
  \/ \E i \in DOMAIN calls : EncryptReturn(i, Len(produced) + 1)

SpecConcurrent == InitConcurrent /\ [][NextConcurrent]_vars

\* the outcome of a call run alone: envelopeDecrypt of its record, and
\* envelopeEncrypt of its arguments with the bytes the call drew and the time
\* it read
EncryptAlone(c) ==
  LET mkVersion == getLatestVersion(registry)
      masterKey == getKey(registry, mkVersion)
      aad == AadOf(c.partyId)
      dek == randomBytes(DEK_BYTES, c.draws[1], 0)
      payloadEnc == aesGcmEncrypt(dek, Utf8Encode(JsonStringify(c.payload)), aad, c.draws[2], 0)
      dekEnc == aesGcmEncrypt(masterKey.value, dek, aad, c.draws[3], 0)
  IN  Ok([id |-> c.id, partyId |-> c.partyId, createdAt |-> c.now,
          payload_nonce |-> payloadEnc.nonce, payload_ct |-> payloadEnc.ct,
          payload_tag |-> payloadEnc.tag,
          dek_wrap_nonce |-> dekEnc.nonce, dek_wrapped |-> dekEnc.ct,
          dek_wrap_tag |-> dekEnc.tag,
          alg |-> ALG, mk_version |-> mkVersion])

Consecutive(draws) == draws[2] = draws[1] + 1 /\ draws[3] = draws[1] + 2

DoneCalls(op) == { i \in DOMAIN calls : calls[i].op = op /\ calls[i].pc = "done" }

\* C22: under every interleaving of the steps of the calls in progress on one
\* registry, a call that returns or throws gives the outcome it gives alone:
\* a decrypt call the outcome and the steps of envelopeDecrypt(registry,
\* record), so that two calls on the same record agree, and an encrypt call the
\* record envelopeEncrypt builds from its arguments and its own random bytes,
\* which decrypts to its payload.
C22_CallsIsolated ==
  /\ \A i \in DoneCalls("decrypt") : calls[i].out = envelopeDecrypt(registry, calls[i].record)
  /\ \A i \in DoneCalls("decrypt") : \A j \in DoneCalls("decrypt") :
       calls[i].record = calls[j].record => calls[i].out.res = calls[j].out.res
  /\ \A i \in DoneCalls("encrypt") :
       LET c == calls[i] IN
       /\ c.out.res = EncryptAlone(c)
       /\ Consecutive(c.draws) =>
            c.out.res = envelopeEncrypt(registry, c.id, c.partyId, c.payload, c.draws[1] - 1, 0, c.now)
       /\ envelopeDecrypt(registry, c.out.res.value).res = Ok(c.payload)

\* two decrypt calls of records with different DEKs are over, the second having
\* unwrapped its DEK while the first held its own: the first has returned the
\* payload, the second has failed on the changed tag
C22_Witness ==
  /\ Len(calls) = 2
  /\ calls[1].op = "decrypt" /\ calls[2].op = "decrypt"
  /\ calls[1].pc = "done" /\ calls[2].pc = "done"
  /\ calls[1].crossed
  /\ calls[1].record = produced[1].record /\ calls[2].record # produced[1].record
  /\ calls[1].dek # calls[2].dek
  /\ calls[1].out.res = Ok(produced[1].payload)
  /\ calls[2].out = Outcome(Err(AuthenticationFailed),
                            <<"validateRecord", "getKey", "unwrapDek", "decryptPayload">>)

\* ----- the registry objects -----

\* the calls of buildKeyRegistry followed
MaxBuilds == 2

\* a versioned key that is valid before one that is too short
EnvV1ThenShort == <<Entry(V(<<"1">>), KeyHex(1)), Entry(V(<<"2">>), SubSeq(KeyHex(2), 1, 62))>>

BuildEnvs == {EnvV1, EnvV1V2, EnvV1Rekeyed, EnvLegacy, EnvEmpty, EnvV1ThenShort}

\* const registry = {}: a new object, which the call fills entry by entry
NewInstance(env) ==
  [env |-> env, i |-> 1, keys |-> EmptyRegistry, status |-> "scan", frozen |-> FALSE,
   error |-> NoKeysConfigured]

\* the call fills the registry object the last call returned
BuildStart_Reuse(env) ==
  /\ Len(instances) < MaxBuilds
  /\ \A k \in DOMAIN instances : instances[k].status \in {"returned", "thrown"}
  /\ instances' = IF instances = <<>> THEN <<NewInstance(env)>>
                  ELSE [instances EXCEPT ![Len(instances)] = NewInstance(env)]
  /\ UNCHANGED <<engineVars, reader, calls, apiVars, serverlessVars>>

\* buildKeyRegistry(env) is called: const registry = {}
BuildStart(env) ==
  /\ Len(instances) < MaxBuilds
  /\ \A k \in DOMAIN instances : instances[k].status \in {"returned", "thrown"}
  /\ instances' = Append(instances, NewInstance(env))
  /\ UNCHANGED <<engineVars, reader, calls, apiVars, serverlessVars>>

\* one turn of the loop over Object.entries(env)
BuildScanEntry(k) ==
  /\ instances[k].status = "scan"
  /\ LET o == instances[k]
         env == o.env
     IN  instances' =
           [instances EXCEPT ![k] =
              IF o.i > Len(env) THEN [o EXCEPT !.status = "legacy"]
              ELSE IF MatchesVersioned(env[o.i].name) /\ env[o.i].value # <<>>
              THEN LET version == ParseVersion(env[o.i].name)
                       key == validateHex(env[o.i].value, "MASTER_KEY_V" \o ToString(version),
                                          MASTER_KEY_BYTES)
                   IN  IF ~key.ok THEN [o EXCEPT !.status = "thrown", !.error = key.error]
                       ELSE [o EXCEPT !.i = @ + 1, !.keys = SetKey(@, version, key.value)]
              ELSE [o EXCEPT !.i = @ + 1]]
  /\ UNCHANGED <<engineVars, reader, calls, apiVars, serverlessVars>>

\* the fallback to env.MASTER_KEY, and the check that a key was found
BuildLegacy(k) ==
  /\ instances[k].status = "legacy"
  /\ LET o == instances[k]
         key == validateHex(LegacyValue(o.env), "MASTER_KEY", MASTER_KEY_BYTES)
     IN  instances' =
           [instances EXCEPT ![k] =
              IF DOMAIN o.keys = {} /\ LegacyValue(o.env) # <<>>
              THEN IF ~key.ok THEN [o EXCEPT !.status = "thrown", !.error = key.error]
                   ELSE [o EXCEPT !.status = "return", !.keys = SetKey(@, 1, key.value)]
              ELSE IF DOMAIN o.keys = {}
              THEN [o EXCEPT !.status = "thrown", !.error = NoKeysConfigured]
              ELSE [o EXCEPT !.status = "return"]]
  /\ UNCHANGED <<engineVars, reader, calls, apiVars, serverlessVars>>

\* return Object.freeze(registry)
BuildReturn(k) ==
  /\ instances[k].status = "return"
  /\ instances' = [instances EXCEPT ![k] = [@ EXCEPT !.status = "returned", !.frozen = TRUE]]
  /\ UNCHANGED <<engineVars, reader, calls, apiVars, serverlessVars>>

\* a reader gets the registry a call has returned, and notes its key set
ReaderTakes(k) ==
  /\ instances[k].status = "returned"
  /\ reader' = [ref |-> k, seen |-> instances[k].keys]
  /\ UNCHANGED <<engineVars, instances, calls, apiVars, serverlessVars>>

\* the registry the reader holds
ReaderRegistry == instances[reader.ref].keys

\* the reader calls getLatestVersion(registry)
ReaderGetLatestVersion ==
  /\ reader.ref # 0
  /\ last' = [op |-> "getLatestVersion", res |-> Ok(getLatestVersion(ReaderRegistry))]
  /\ UNCHANGED <<registry, produced, held, instanceVars, calls, apiVars, serverlessVars>>

\* the reader calls getKey(registry, version)
ReaderGetKey(version) ==
  /\ reader.ref # 0
  /\ last' = [op |-> "getKey", res |-> getKey(ReaderRegistry, version)]
  /\ UNCHANGED <<registry, produced, held, instanceVars, calls, apiVars, serverlessVars>>

\* the reader calls envelopeEncrypt(registry, id, partyId, payload) and keeps the record
ReaderEncrypt(rq) ==
  /\ reader.ref # 0
  /\ LET res == envelopeEncrypt(ReaderRegistry, rq[1], rq[2], rq[3], 0, 0, 1)
     IN  /\ last' = [op |-> "encrypt", res |-> res]
         /\ held' = [rec |-> res.value, origin |-> 0, edit |-> "none"]
  /\ UNCHANGED <<registry, produced, instanceVars, calls, apiVars, serverlessVars>>

\* the reader calls envelopeDecrypt(registry, record) on the record kept
ReaderDecrypt ==
  /\ reader.ref # 0
  /\ held # NoHeld
  /\ last' = [op |-> "decrypt", res |-> envelopeDecrypt(ReaderRegistry, held.rec).res]
  /\ UNCHANGED <<registry, produced, held, instanceVars, calls, apiVars, serverlessVars>>

InitInstances ==
  /\ registry = EmptyRegistry
  /\ produced = <<>>
  /\ held = NoHeld
  /\ last = [op |-> "none"]
  /\ calls = <<>>
  /\ InstancesIdle /\ ApiIdle /\ ServerlessIdle

NextInstances ==
  \/ \E env \in BuildEnvs : BuildStart(env)
  \/ \E k \in DOMAIN instances : BuildScanEntry(k)
  \/ \E k \in DOMAIN instances : BuildLegacy(k)
  \/ \E k \in DOMAIN instances : BuildReturn(k)
  \/ \E k \in DOMAIN instances : ReaderTakes(k)
  \/ ReaderGetLatestVersion
  \/ \E version \in {1, 2} : ReaderGetKey(version)
  \/ ReaderEncrypt(<<(<<"x">>), (<<"p">>), PayloadAmount>>)
  \/ ReaderDecrypt

SpecInstances == InitInstances /\ [][NextInstances]_vars

\* C23: the registry object a reader holds is one a call of buildKeyRegistry
\* has returned, frozen, and its versions and key bytes are those the reader
\* saw when it got it, whatever getLatestVersion, getKey, envelopeEncrypt and
\* envelopeDecrypt calls were made on it, failing ones included, and whatever
\* calls of buildKeyRegistry came later: each of those fills an object of its
\* own. An object that was returned holds the whole key set of its
\* environment; an object whose call threw is never handed out.
C23_RegistryImmutable ==
  /\ reader.ref # 0 =>
       /\ instances[reader.ref].status = "returned"
       /\ instances[reader.ref].frozen
       /\ instances[reader.ref].keys = reader.seen
  /\ \A k \in DOMAIN instances :
       /\ instances[k].status = "returned" =>
            buildKeyRegistry(instances[k].env) = Ok(instances[k].keys)
       /\ instances[k].status = "thrown" =>
            buildKeyRegistry(instances[k].env) = Err(instances[k].error)
       /\ instances[k].frozen <=> instances[k].status = "returned"

\* the reader holds the first registry, a later call has returned a second
\* one with another key set, and a call of the reader on the first has failed
C23_Witness ==
  /\ reader.ref = 1
  /\ Len(instances) = 2
  /\ instances[2].status = "returned"
  /\ instances[2].keys # instances[1].keys
  /\ instances[1].keys = reader.seen
  /\ last.op \in {"getKey", "decrypt"}
  /\ ~last.res.ok

\* ----- the API: the routes of routes/tx.ts on the Fastify app -----

\* rateLimit: { max: 5, timeWindow: "1 minute" } of POST /tx/:id/decrypt
DecryptMax == 5

\* the records stored, the rate limit windows followed, and the requests of
\* one IP followed in one window
MaxRecords == 2
MaxWindows == 1
MaxRequests == 6

\* the app as the entry points set it up: apps/api/src/index.ts registers
\* CORS, the routes and /health; apps/api/index.js and the later version of
\* the entry point register the rate limit plugin as well
AppWithoutRateLimit == [made |-> 1, plugins |-> {"cors", "txRoutes", "health"}, ready |-> TRUE]
AppWithRateLimit ==
  [made |-> 1, plugins |-> {"cors", "rateLimit", "txRoutes", "health"}, ready |-> TRUE]

\* the error bodies of the routes
PartyIdRequired == [kind |-> "PartyIdRequired"]
PayloadRequired == [kind |-> "PayloadRequired"]
RecordNotFound(id) == [kind |-> "RecordNotFound", id |-> id]
RateLimitExceeded == [kind |-> "RateLimitExceeded"]

\* String.prototype.trim, on the space character
RECURSIVE TrimStart(_)
TrimStart(cs) == IF cs # <<>> /\ Head(cs) = " " THEN TrimStart(Tail(cs)) ELSE cs
RECURSIVE TrimEnd(_)
TrimEnd(cs) ==
  IF cs # <<>> /\ cs[Len(cs)] = " " THEN TrimEnd(SubSeq(cs, 1, Len(cs) - 1)) ELSE cs
Trim(cs) == TrimEnd(TrimStart(cs))

\* the store: a Map, as the sequence of its entries in insertion order
StoreIds(m) == { m[k].id : k \in DOMAIN m }
StoreHas(m, id) == id \in StoreIds(m)
StoreGet(m, id) == m[CHOOSE k \in DOMAIN m : m[k].id = id].record
StoreSet(m, id, record) ==
  IF StoreHas(m, id)
  THEN [k \in DOMAIN m |-> IF m[k].id = id THEN [id |-> id, record |-> record] ELSE m[k]]
  ELSE Append(m, [id |-> id, record |-> record])

\* every call returns the same id
randomUUID_Same(n) == <<"a">>

\* randomUUID(): the n-th id drawn, different from every id drawn before
randomUUID(n) == << <<"a">>, <<"b">>, <<"x">>, <<"y">> >>[n]

\* the summaries of GET /tx, sorted by createdAt, newest first
Summary(r) == [id |-> r.id, partyId |-> r.partyId, createdAt |-> r.createdAt, alg |-> r.alg]
RECURSIVE InsertNewestFirst(_, _)
InsertNewestFirst(sorted, x) ==
  IF sorted = <<>> THEN <<x>>
  ELSE IF Head(sorted).createdAt >= x.createdAt
       THEN <<Head(sorted)>> \o InsertNewestFirst(Tail(sorted), x)
       ELSE <<x>> \o sorted
RECURSIVE SortNewestFirst(_)
SortNewestFirst(xs) ==
  IF xs = <<>> THEN <<>>
  ELSE InsertNewestFirst(SortNewestFirst(SubSeq(xs, 1, Len(xs) - 1)), xs[Len(xs)])

\* the bodies sent to POST /tx/encrypt: partyId and payload as JSON values
Body(partyId, payload) == [partyId |-> partyId, payload |-> payload]
Bodies ==
  { Body(JStr(<<" ", "p", " ">>), PayloadAmount),
    Body(JStr(<<" ">>), PayloadAmount),
    Body(JNum(5), PayloadAmount),
    Body(JStr(<<"p">>), JStr(<<"x">>)) }

ApiEnvs == {EnvV1, EnvV1V2, EnvEmpty}

Reply(op, ip, id, status, body) ==
  [op |-> op, ip |-> ip, id |-> id, status |-> status, body |-> body]

NoHits == [count |-> 0, handled |-> 0]

\* the onRequest hook of the rate limit plugin on a route with a rateLimit
\* config: the request is counted for its IP, and passes while the count is at
\* most max; without the plugin the config has no effect
Counted(ip) ==
  IF "rateLimit" \in app.plugins
  THEN [hits EXCEPT ![ip].count = Min(@ + 1, DecryptMax + 1)]
  ELSE hits
Passes(ip) == "rateLimit" \in app.plugins => Counted(ip)[ip].count <= DecryptMax

\* the decrypt handler removes a record it could not decrypt
DecryptFailure_Removes(id) ==
  store' = SelectSeq(store, LAMBDA e : e.id # id)

\* catch (err): the failure is logged and answered, the store is not touched
DecryptFailure(id) ==
  store' = store

\* POST /tx/encrypt
PostEncrypt(ip, body) ==
  /\ Len(store) < MaxRecords
  /\ LET id == randomUUID(Len(store) + 1)
         reg == buildKeyRegistry(environment)
         partyId == Trim(body.partyId.s)
         res == envelopeEncrypt(reg.value, id, partyId, body.payload,
                                3 * Len(produced), 0, Len(produced) + 1)
     IN  IF body.partyId.t # "str" \/ Trim(body.partyId.s) = <<>>
         THEN /\ last' = Reply("POST /tx/encrypt", ip, <<>>, 400, [error |-> PartyIdRequired])
              /\ UNCHANGED <<store, produced>>
         ELSE IF body.payload.t # "obj"
         THEN /\ last' = Reply("POST /tx/encrypt", ip, <<>>, 400, [error |-> PayloadRequired])
              /\ UNCHANGED <<store, produced>>
         ELSE IF ~reg.ok
         THEN /\ last' = Reply("POST /tx/encrypt", ip, <<>>, 500, [error |-> reg.error])
              /\ UNCHANGED <<store, produced>>
         ELSE IF ~res.ok
         THEN /\ last' = Reply("POST /tx/encrypt", ip, <<>>, 500, [error |-> res.error])
              /\ UNCHANGED <<store, produced>>
         ELSE /\ store' = StoreSet(store, id, res.value)
              /\ produced' = Append(produced, Written(res.value, id, partyId, body.payload, reg.value))
              /\ last' = Reply("POST /tx/encrypt", ip, id, 201, res.value)
  /\ UNCHANGED <<registry, held, calls, instanceVars, environment, hits, clock, serverlessVars>>

\* GET /tx
GetList(ip) ==
  /\ last' = Reply("GET /tx", ip, <<>>, 200,
                   SortNewestFirst([k \in DOMAIN store |-> Summary(store[k].record)]))
  /\ UNCHANGED <<registry, produced, held, calls, instanceVars, apiVars, serverlessVars>>

\* GET /tx/:id
GetRecord(ip, id) ==
  /\ last' = IF ~StoreHas(store, id)
             THEN Reply("GET /tx/:id", ip, id, 404, [error |-> RecordNotFound(id)])
             ELSE Reply("GET /tx/:id", ip, id, 200, StoreGet(store, id))
  /\ UNCHANGED <<registry, produced, held, calls, instanceVars, apiVars, serverlessVars>>

\* POST /tx/:id/decrypt: the rate limit hook where the plugin is registered,
\* then the handler
PostDecrypt(ip, id) ==
  /\ hits[ip].handled < MaxRequests
  /\ IF ~Passes(ip)
     THEN /\ hits' = Counted(ip)
          /\ last' = Reply("POST /tx/:id/decrypt", ip, id, 429, [error |-> RateLimitExceeded])
          /\ store' = store
     ELSE /\ hits' = [Counted(ip) EXCEPT ![ip].handled = @ + 1]
          /\ IF ~StoreHas(store, id)
             THEN /\ last' = Reply("POST /tx/:id/decrypt", ip, id, 404, [error |-> RecordNotFound(id)])
                  /\ store' = store
             ELSE LET record == StoreGet(store, id)
                      reg == buildKeyRegistry(environment)
                      out == envelopeDecrypt(reg.value, record).res
                  IN  IF ~reg.ok
                      THEN /\ last' = Reply("POST /tx/:id/decrypt", ip, id, 500, [error |-> reg.error])
                           /\ DecryptFailure(id)
                      ELSE IF ~out.ok
                      THEN /\ last' = Reply("POST /tx/:id/decrypt", ip, id, 500, [error |-> out.error])
                           /\ DecryptFailure(id)
                      ELSE /\ last' = Reply("POST /tx/:id/decrypt", ip, id, 200,
                                            [id |-> record.id, partyId |-> record.partyId,
                                             payload |-> out.value])
                           /\ store' = store
  /\ UNCHANGED <<registry, produced, held, calls, instanceVars, environment, clock, serverlessVars>>

\* the environment of the process is changed
SetEnvironment(env) ==
  /\ env # environment
  /\ environment' = env
  /\ last' = [op |-> "environment"]
  /\ UNCHANGED <<registry, produced, held, calls, instanceVars, store, hits, clock, serverlessVars>>

\* the time window of the rate limit is over: the counts start again
WindowEnds ==
  /\ clock < MaxWindows
  /\ clock' = clock + 1
  /\ hits' = [ip \in DOMAIN hits |-> NoHits]
  /\ last' = [op |-> "window"]
  /\ UNCHANGED <<registry, produced, held, calls, instanceVars, environment, store, serverlessVars>>

ApiIps == {"10.0.0.1"}
ApiIds == {<<"a">>, <<"b">>}

InitApi ==
  /\ registry = EmptyRegistry
  /\ produced = <<>>
  /\ held = NoHeld
  /\ last = [op |-> "none"]
  /\ calls = <<>>
  /\ InstancesIdle
  /\ environment = EnvV1
  /\ store = <<>>
  /\ hits = [ip \in ApiIps |-> NoHits]
  /\ clock = 0
  /\ app \in {AppWithoutRateLimit, AppWithRateLimit}
  /\ handlers = <<>>

NextApi ==
  \/ \E ip \in ApiIps : \E body \in Bodies : PostEncrypt(ip, body)
  \/ \E ip \in ApiIps : GetList(ip)
  \/ \E ip \in ApiIps : \E id \in ApiIds : GetRecord(ip, id)
  \/ \E ip \in ApiIps : \E id \in ApiIds : PostDecrypt(ip, id)
  \/ \E env \in ApiEnvs : SetEnvironment(env)
  \/ WindowEnds

SpecApi == InitApi /\ [][NextApi]_vars

\* the registry built from the environment holds the version of the k-th
\* record returned by POST /tx/encrypt, with the key it was wrapped under
StillHolds(k) ==
  LET reg == buildKeyRegistry(environment)
      version == produced[k].record.mk_version
  IN  /\ reg.ok
      /\ version \in DOMAIN reg.value
      /\ reg.value[version] = produced[k].registry[version]

\* the reply of POST /tx/:id/decrypt for the k-th record
Decrypted(k) ==
  [id |-> produced[k].id, partyId |-> produced[k].partyId, payload |-> produced[k].payload]

\* the original statement of C24: whatever requests came before, POST
\* /tx/i/decrypt returns the id, the trimmed partyId and the payload while the
\* registry of the environment holds the record's version with the same key.
C24_DecryptWhateverRequests ==
  \A k \in DOMAIN produced :
    (last.op = "POST /tx/:id/decrypt" /\ last.id = produced[k].id /\ StillHolds(k)) =>
      (last.status = 200 /\ last.body = Decrypted(k))

\* C24: once POST /tx/encrypt has returned 201 with record R under id i, the
\* store holds R under i after every sequence of requests, GET /tx/i returns
\* exactly R, and a POST /tx/i/decrypt that the rate limit of the route lets
\* through returns the id, the trimmed partyId and the submitted payload while
\* the registry built from the environment at that request holds R's
\* mk_version with the same key. The sixth and later decrypt requests of an
\* IP in a window are answered 429 where the rate limit plugin is registered.
C24_ApiRoundTrip ==
  \A k \in DOMAIN produced :
    /\ StoreHas(store, produced[k].id)
    /\ StoreGet(store, produced[k].id) = produced[k].record
    /\ (last.op = "GET /tx/:id" /\ last.id = produced[k].id) =>
         (last.status = 200 /\ last.body = produced[k].record)
    /\ (last.op = "POST /tx/:id/decrypt" /\ last.id = produced[k].id /\ StillHolds(k)) =>
         \/ last.status = 200 /\ last.body = Decrypted(k)
         \/ /\ last.status = 429
            /\ "rateLimit" \in app.plugins
            /\ hits[last.ip].count > DecryptMax

\* the first record, written under one key, is decrypted after a second
\* record was stored and a second key was added to the environment; its
\* partyId was sent with spaces around it
C24_Witness ==
  /\ Len(produced) = 2
  /\ environment = EnvV1V2
  /\ DOMAIN produced[1].registry = {1}
  /\ produced[1].partyId = <<"p">>
  /\ last.op = "POST /tx/:id/decrypt"
  /\ last.id = produced[1].id
  /\ last.status = 200
  /\ last.body = Decrypted(1)
  /\ hits[last.ip].handled > 1

\* C29: the store only grows. A step changes it only when it is a POST
\* /tx/encrypt answered 201, which appends one entry, the record returned,
\* under an id the store did not hold; every other request, among them those
\* answered 400, 404 or 500, failed decryptions and GET requests, leaves every
\* entry as it was.
C29_StoreFrame ==
  [][ IF last'.op = "POST /tx/encrypt" /\ last'.status = 201
      THEN /\ ~StoreHas(store, last'.id)
           /\ store' = Append(store, [id |-> last'.id, record |-> last'.body])
      ELSE store' = store ]_vars

\* two records are stored, and a decryption has just failed with 500
C29_Witness ==
  /\ Len(store) = 2
  /\ last.op = "POST /tx/:id/decrypt"
  /\ last.status = 500
  /\ StoreHas(store, last.id)

\* ----- the rate limit of the decrypt route, for two IPs -----

LimitIps == {"10.0.0.1", "10.0.0.2"}

\* one record is stored; the app is the one of either entry point
InitLimit ==
  /\ registry = EmptyRegistry
  /\ held = NoHeld
  /\ last = [op |-> "none"]
  /\ calls = <<>>
  /\ InstancesIdle
  /\ environment = EnvV1
  /\ LET id == randomUUID(1)
         reg == buildKeyRegistry(EnvV1).value
         record == envelopeEncrypt(reg, id, <<"p">>, PayloadAmount, 0, 0, 1).value
     IN  /\ produced = <<Written(record, id, <<"p">>, PayloadAmount, reg)>>
         /\ store = <<[id |-> id, record |-> record]>>
  /\ hits = [ip \in LimitIps |-> NoHits]
  /\ clock = 0
  /\ app \in {AppWithoutRateLimit, AppWithRateLimit}
  /\ handlers = <<>>

NextLimit ==
  \/ \E ip \in LimitIps : \E id \in ApiIds : PostDecrypt(ip, id)
  \/ \E ip \in LimitIps : \E id \in ApiIds : GetRecord(ip, id)
  \/ \E ip \in LimitIps : GetList(ip)
  \/ \E ip \in LimitIps : PostEncrypt(ip, Body(JStr(<<"q">>), PayloadTwo))
  \/ WindowEnds

SpecLimit == InitLimit /\ [][NextLimit]_vars

\* C25: in each window of the rate limit at most DecryptMax requests of one
\* IP to POST /tx/:id/decrypt reach the handler; a request answered 429 was
\* counted beyond DecryptMax and no decryption was made for it; the other
\* routes never answer 429.
C25_DecryptLimited ==
  /\ \A ip \in DOMAIN hits : hits[ip].handled <= DecryptMax
  /\ (last.op \in {"POST /tx/encrypt", "GET /tx", "GET /tx/:id", "POST /tx/:id/decrypt"}
      /\ last.status = 429) =>
       (last.op = "POST /tx/:id/decrypt" /\ hits[last.ip].count > DecryptMax)

\* the app was set up without the rate limit plugin, and the sixth decrypt
\* request of one IP in one window has been decrypted and answered 200
C25_Witness ==
  /\ "rateLimit" \notin app.plugins
  /\ last.op = "POST /tx/:id/decrypt"
  /\ last.status = 200
  /\ hits[last.ip].handled = DecryptMax + 1
  /\ clock = 0

\* where the plugin is registered, the limit holds for each IP by itself
C25_LimitedWherePluginRegistered ==
  "rateLimit" \in app.plugins =>
    /\ \A ip \in DOMAIN hits : hits[ip].handled <= DecryptMax
    /\ \A ip \in DOMAIN hits : hits[ip].handled = Min(hits[ip].count, DecryptMax)

\* ----- one key per decryption -----

\* the wrapped DEK of the held record authenticates under the key of version v
UnwrapsUnder(v) ==
  aesGcmDecrypt(registry[v], held.rec.dek_wrap_nonce, held.rec.dek_wrapped,
                held.rec.dek_wrap_tag, AadOf(held.rec.partyId)).ok

\* C26: envelopeDecrypt unwraps the DEK with the key the registry holds at
\* record.mk_version and with no other. When the record is well formed, its
\* version is present and the wrapped DEK does not authenticate under that
\* key, the call ends at the unwrap step with AuthenticationFailed, also when
\* another version of the registry would unwrap it; a call that returns a
\* payload has unwrapped under the key of mk_version.
C26_NoKeyFallback ==
  DecryptCase =>
    /\ (~Malformed /\ VersionPresent /\ ~UnwrapsUnder(held.rec.mk_version)) =>
         /\ last.out.res = Err(AuthenticationFailed)
         /\ last.out.steps = <<"validateRecord", "getKey", "unwrapDek">>
    /\ last.out.res.ok => (VersionPresent /\ UnwrapsUnder(held.rec.mk_version))

\* mk_version was changed to another version the registry holds: the unwrap
\* under that key fails and the call fails, while the version the record was
\* written under is present and would unwrap the DEK
C26_Witness ==
  /\ DecryptCase
  /\ held.edit = "mk_version"
  /\ VersionPresent
  /\ held.rec.mk_version # Origin.record.mk_version
  /\ Origin.record.mk_version \in DOMAIN registry
  /\ UnwrapsUnder(Origin.record.mk_version)
  /\ ~UnwrapsUnder(held.rec.mk_version)
  /\ last.out.res = Err(AuthenticationFailed)
  /\ Len(last.out.steps) = 3

\* ----- validation of the versioned entries -----

\* the value is 64 hex characters
IsKeyHex(value) == Len(value) = 2 * MASTER_KEY_BYTES /\ \A i \in 1..Len(value) : IsHexChar(value[i])

\* the versioned entries whose value is not 64 hex characters, and those among
\* them whose value is not empty
BadVersionedEntries(env) ==
  {i \in 1..Len(env) : MatchesVersioned(env[i].name) /\ ~IsKeyHex(env[i].value)}
BadNonEmptyEntries(env) == {i \in BadVersionedEntries(env) : env[i].value # <<>>}

\* the configuration without its versioned entries of empty value
WithoutEmptyVersioned(env) ==
  SelectSeq(env, LAMBDA e : ~(MatchesVersioned(e.name) /\ e.value = <<>>))

\* the original statement of C27: a versioned entry whose value is not 64 hex
\* characters, an empty value included, makes buildKeyRegistry fail with
\* MalformedEncoding or LengthMismatch, whatever the other entries are.
C27_EveryVersionedEntryChecked ==
  (ConfigureCase /\ BadVersionedEntries(last.env) # {}) =>
    /\ ~last.res.ok
    /\ last.res.error.kind \in {"MalformedEncoding", "LengthMismatch"}

\* C27: buildKeyRegistry validates every versioned entry that has a value: if
\* the value of one of them is not empty and not 64 hex characters, the call
\* fails with MalformedEncoding or LengthMismatch and no registry is returned,
\* whatever the other entries are. A versioned entry with an empty value is
\* skipped: the outcome is that of the configuration without it. A registry
\* that is returned holds, for each version, the decoded value of the last
\* entry of that version.
C27_BuildValidatesEntries ==
  ConfigureCase =>
    /\ BadNonEmptyEntries(last.env) # {} =>
         /\ ~last.res.ok
         /\ last.res.error.kind \in {"MalformedEncoding", "LengthMismatch"}
         /\ registry = EmptyRegistry
    /\ last.res = buildKeyRegistry(WithoutEmptyVersioned(last.env))
    /\ last.res.ok =>
         \A i \in VersionedEntries(last.env) :
           (\A j \in VersionedEntries(last.env) :
              ParseVersion(last.env[j].name) = ParseVersion(last.env[i].name) => j <= i) =>
             last.res.value[ParseVersion(last.env[i].name)] = HexDecode(last.env[i].value)

\* a valid key for version 1 is followed by a key for version 2 that is two
\* characters short: the call has failed with LengthMismatch
C27_Witness ==
  /\ ConfigureCase
  /\ Len(last.env) = 2
  /\ last.env[1] = Entry(V(<<"1">>), KeyHex(1))
  /\ last.env[2] = Entry(V(<<"2">>), SubSeq(KeyHex(1), 1, 62))
  /\ ~last.res.ok
  /\ last.res.error.kind = "LengthMismatch"
  /\ registry = EmptyRegistry

\* ----- the serverless entry point: apps/api/index.js -----

\* the handler invocations followed
MaxInvocations == 2

AllPlugins == {"cors", "rateLimit", "txRoutes", "health"}

\* the app a request was handed to, as it was at the call of fastify.inject
NoApp == [plugins |-> {}, ready |-> FALSE]
NewHandler == [pc |-> "buildApp", to |-> NoApp]

\* Vercel calls handler(req, res)
Invoke ==
  /\ Len(handlers) < MaxInvocations
  /\ handlers' = Append(handlers, NewHandler)
  /\ UNCHANGED <<engineVars, calls, instanceVars, apiVars, app>>

\* buildApp up to its first await: if (app) return app; app = Fastify(...);
\* app.register(cors, ...) is called
BuildAppEnter(h) ==
  /\ handlers[h].pc = "buildApp"
  /\ IF app.made > 0
     THEN /\ handlers' = [handlers EXCEPT ![h].pc = "inject"]
          /\ app' = app
     ELSE /\ app' = [made |-> app.made + 1, plugins |-> {}, ready |-> FALSE]
          /\ handlers' = [handlers EXCEPT ![h].pc = "registerCors"]
  /\ UNCHANGED <<engineVars, calls, instanceVars, apiVars>>

\* await app.register(cors, ...) is over; app.register(rateLimit, ...) is called
RegisterCors(h) ==
  /\ handlers[h].pc = "registerCors"
  /\ app' = [app EXCEPT !.plugins = @ \cup {"cors"}]
  /\ handlers' = [handlers EXCEPT ![h].pc = "registerRateLimit"]
  /\ UNCHANGED <<engineVars, calls, instanceVars, apiVars>>

\* await app.register(rateLimit, ...) is over; app.register(txRoutes) is called
RegisterRateLimit(h) ==
  /\ handlers[h].pc = "registerRateLimit"
  /\ app' = [app EXCEPT !.plugins = @ \cup {"rateLimit"}]
  /\ handlers' = [handlers EXCEPT ![h].pc = "registerRoutes"]
  /\ UNCHANGED <<engineVars, calls, instanceVars, apiVars>>

\* await app.register(txRoutes) is over; app.get("/health", ...); app.ready() is called
RegisterRoutes(h) ==
  /\ handlers[h].pc = "registerRoutes"
  /\ app' = [app EXCEPT !.plugins = @ \cup {"txRoutes", "health"}]
  /\ handlers' = [handlers EXCEPT ![h].pc = "ready"]
  /\ UNCHANGED <<engineVars, calls, instanceVars, apiVars>>

\* await app.ready() is over; return app
Ready(h) ==
  /\ handlers[h].pc = "ready"
  /\ app' = [app EXCEPT !.ready = TRUE]
  /\ handlers' = [handlers EXCEPT ![h].pc = "inject"]
  /\ UNCHANGED <<engineVars, calls, instanceVars, apiVars>>

\* const response = await fastify.inject({...}): the request is handed to the app
Inject(h) ==
  /\ handlers[h].pc = "inject"
  /\ handlers' = [handlers EXCEPT ![h].pc = "respond",
                                  ![h].to = [plugins |-> app.plugins, ready |-> app.ready]]
  /\ UNCHANGED <<engineVars, calls, instanceVars, apiVars, app>>

\* res.statusCode = ..., res.setHeader(...), res.end(response.body)
Respond(h) ==
  /\ handlers[h].pc = "respond"
  /\ handlers' = [handlers EXCEPT ![h].pc = "done"]
  /\ UNCHANGED <<engineVars, calls, instanceVars, apiVars, app>>

InitServerless ==
  /\ registry = EmptyRegistry
  /\ produced = <<>>
  /\ held = NoHeld
  /\ last = [op |-> "none"]
  /\ calls = <<>>
  /\ InstancesIdle /\ ApiIdle /\ ServerlessIdle

NextServerless ==
  \/ Invoke
  \/ \E h \in DOMAIN handlers : BuildAppEnter(h)
  \/ \E h \in DOMAIN handlers : RegisterCors(h)
  \/ \E h \in DOMAIN handlers : RegisterRateLimit(h)
  \/ \E h \in DOMAIN handlers : RegisterRoutes(h)
  \/ \E h \in DOMAIN handlers : Ready(h)
  \/ \E h \in DOMAIN handlers : Inject(h)
  \/ \E h \in DOMAIN handlers : Respond(h)

SpecServerless == InitServerless /\ [][NextServerless]_vars

FullySetUp(a) == a.plugins = AllPlugins /\ a.ready
Dispatched(h) == handlers[h].pc \in {"respond", "done"}

\* C28: buildApp creates at most one Fastify instance, and every handler
\* invocation hands its request only to an app on which CORS, rate limiting,
\* the transaction routes and /health are registered and ready() has
\* completed, also an invocation that starts while the first is awaiting a
\* registration.
C28_DispatchOnlyToReadyApp ==
  /\ app.made <= 1
  /\ \A h \in DOMAIN handlers : Dispatched(h) => FullySetUp(handlers[h].to)

\* the first invocation is still awaiting the registration of the rate limit
\* plugin, and the second has handed its request to the app, on which neither
\* the rate limit nor the routes are registered and ready() has not completed
C28_Witness ==
  /\ Len(handlers) = 2
  /\ handlers[1].pc = "registerRateLimit"
  /\ Dispatched(2)
  /\ handlers[2].to = [plugins |-> {"cors"}, ready |-> FALSE]
  /\ app.made = 1

\* the part of C28 that holds: one Fastify instance is created, whatever the
\* interleaving of the invocations, and the invocation that created it hands
\* its own request to the app fully set up
C28_OneInstance ==
  /\ app.made <= 1
  /\ \A h \in DOMAIN handlers :
       (Dispatched(h) /\ ~FullySetUp(handlers[h].to)) =>
         \E g \in DOMAIN handlers : g # h /\ handlers[g].pc \notin {"buildApp"}

\* ----- records of the earlier engine under the current envelopeDecrypt -----

\* the records the earlier engine writes in a run
MaxEarlier == 1

MasterKeyRequired == [kind |-> "MasterKeyRequired"]

\* parseMasterKey(hexKey): the 32 bytes of a master key given as hex text
parseMasterKey(hexKey) ==
  IF hexKey = <<>> THEN Err(MasterKeyRequired)
  ELSE validateHex(hexKey, "MASTER_KEY", MASTER_KEY_BYTES)

\* aesGcmEncrypt(key, data) of the earlier engine: the cipher is given no
\* additional authenticated data
EarlierAesGcmEncrypt(key, data, t, seed) ==
  LET nonce == randomBytes(NONCE_BYTES, t, seed)
      ct == GcmEncryptBytes(key, nonce, data)
      tag == GcmTag(key, nonce, <<>>, ct)
  IN  [nonce |-> HexEncode(nonce), ct |-> HexEncode(ct), tag |-> HexEncode(tag)]

\* envelopeEncrypt(masterKeyHex, id, partyId, payload) of the earlier engine
EarlierEnvelopeEncrypt(masterKeyHex, id, partyId, payload, t, seed, now) ==
  LET masterKey == parseMasterKey(masterKeyHex)
      dek == randomBytes(DEK_BYTES, t + 1, seed)
      plaintext == Utf8Encode(JsonStringify(payload))
      payloadEnc == EarlierAesGcmEncrypt(dek, plaintext, t + 2, seed)
      dekEnc == EarlierAesGcmEncrypt(masterKey.value, dek, t + 3, seed)
  IN  IF ~masterKey.ok THEN masterKey
      ELSE Ok([id |-> id,
               partyId |-> partyId,
               createdAt |-> now,
               payload_nonce |-> payloadEnc.nonce,
               payload_ct |-> payloadEnc.ct,
               payload_tag |-> payloadEnc.tag,
               dek_wrap_nonce |-> dekEnc.nonce,
               dek_wrapped |-> dekEnc.ct,
               dek_wrap_tag |-> dekEnc.tag,
               alg |-> ALG,
               mk_version |-> 1])

\* the environment of a deployment that has the master key as MASTER_KEY
EnvMasterKey(masterKeyHex) == <<Entry(LegacyName, masterKeyHex)>>

\* the master keys of the deployments, and what a caller of the earlier engine
\* may pass as the key
EarlierKeys == {KeyHex(1), KeyHex(2)}
EarlierKeyArgs == EarlierKeys \cup {<<>>, SubSeq(KeyHex(1), 1, 62)}
EarlierParties == {<<>>} \cup Parties

\* a call of the earlier envelopeEncrypt; what is remembered of it holds the
\* registry that the same key gives as MASTER_KEY
EarlierEncrypt(masterKeyHex, id, partyId, payload) ==
  /\ Len(produced) < MaxEarlier
  /\ LET res == EarlierEnvelopeEncrypt(masterKeyHex, id, partyId, payload,
                                       3 * Len(produced), 0, Len(produced) + 1)
     IN  /\ last' = [op |-> "earlierEncrypt", id |-> id, partyId |-> partyId,
                     payload |-> payload, res |-> res]
         /\ produced' = IF res.ok
                         THEN Append(produced,
                                Written(res.value, id, partyId, payload,
                                        buildKeyRegistry(EnvMasterKey(masterKeyHex)).value))
                         ELSE produced
  /\ UNCHANGED <<registry, held, serverVars>>

\* the current engine starts with one of the keys as MASTER_KEY
InitEarlier ==
  /\ ServerIdle
  /\ \E k \in EarlierKeys : registry = buildKeyRegistry(EnvMasterKey(k)).value
  /\ produced = <<>>
  /\ held = NoHeld
  /\ last = [op |-> "none"]

NextEarlier ==
  \/ \E k \in EarlierKeyArgs : \E p \in EarlierParties : \E d \in Payloads :
       EarlierEncrypt(k, <<"x">>, p, d)
  \/ \E i \in 1..MaxEarlier : Take(i)
  \/ EnvelopeDecrypt

SpecEarlier == InitEarlier /\ [][NextEarlier]_vars

\* the last call decrypted, as stored, a record of the earlier engine whose
\* key is the MASTER_KEY of the current registry
EarlierCase == StoredCase /\ Origin.registry = registry

\* C30: a record written by the earlier engine (no additional authenticated
\* data, mk_version 1) and decrypted by the current envelopeDecrypt under the
\* registry built from the same key as MASTER_KEY gives its payload back when
\* its partyId is the empty string, and for every non-empty partyId fails with
\* the authentication failure, at the unwrapping of the DEK
C30_EarlierRecords ==
  EarlierCase =>
    /\ held.rec.mk_version = 1
    /\ DOMAIN registry = {1}
    /\ IF Origin.partyId = <<>>
       THEN last.out.res = Ok(Origin.payload)
       ELSE /\ last.out.res = Err(AuthenticationFailed)
            /\ last.out.steps = <<"validateRecord", "getKey", "unwrapDek">>

\* a record of the earlier engine with a party, refused by the current engine
C30_Witness ==
  /\ EarlierCase
  /\ last.op = "decrypt"
  /\ Origin.partyId = <<"p">>
  /\ Origin.payload = PayloadAmount
  /\ FailsWith("AuthenticationFailed")

\* a record of the earlier engine without a party, decrypted by the current engine
C30_EmptyPartyRead ==
  EarlierCase /\ Origin.partyId = <<>> /\ last.out.res = Ok(PayloadTwo)

====
